---- MODULE Spec2Model ----
(***************************************************************************)
(* Context-window management of the Discord agent (MyAgent): the DM flow   *)
(* (message table + messageBuffer + summarizeAndPruneMessages + tool-call  *)
(* loop) and the guild flow (buildContextFromDiscord + channel             *)
(* checkpoints + stateless tool-call loop), and the tools behind callTool   *)
(* (memory_insert, memory_replace, internet_search, read_website).         *)
(* Further specifications cover the DM flow with overlapping handlings     *)
(* (SpecConcurrent) and over a persisted conversation (SpecPersisted),     *)
(* sendDm with splitMessageByNewline (SpecSplit, SpecSplitFair), the       *)
(* routing of DiscordGateway.onDispatch (SpecGateway), the gateway's       *)
(* connection (SpecSocket) and the Slack agent's onSlackEvent (SpecSlack). *)
(*                                                                         *)
(* One action is one synchronous segment of a handler, i.e. the code that  *)
(* runs between two awaits on I/O (LLM call, tool call, Discord REST).     *)
(***************************************************************************)
EXTENDS Integers, Sequences, FiniteSets, TLC

\* ------------------------------------------------------------------------
\* Program constants
\* ------------------------------------------------------------------------
MAX_MESSAGES == 50
\* PRUNE_PERCENTAGE is 0.7 in the source; kept here in percent.
PRUNE_PERCENTAGE == 70
SUMMARY_MESSAGE_ID_PREFIX == "summary_"
\* page size of fetchChannelMessages in buildContextFromDiscord
PAGE_LIMIT == 100

\* ------------------------------------------------------------------------
\* Bounds of the model
\* ------------------------------------------------------------------------
NumHandlers == 2
MaxInbound == 2
MaxToolRounds == 3
MaxCalls == 2
MaxPosts == 1
MaxGuildToolRounds == 1
MaxToolOps == 2
MaxConcurrentToolRounds == 1
MaxTextLen == 5
MaxChunkLen == 3
MaxDispatches == 2
MaxStarts == 3
MaxSlackEvents == 2

Handlers == 1..NumHandlers

\* ------------------------------------------------------------------------
\* Values
\* ------------------------------------------------------------------------
Null == "null"
NoId == <<"null", 0>>

\* crypto.randomUUID(): a fresh id, modelled by a counter
Uuid(k) == <<"uuid", k>>
\* `${SUMMARY_MESSAGE_ID_PREFIX}${Date.now()}`
SummaryId(t) == <<SUMMARY_MESSAGE_ID_PREFIX, t>>
\* id of the i-th tool call the model has produced
CallId(k) == <<"call", k>>

AsyncTools == {"internet_search", "read_website"}

\* tool-call lists (by tool name) an LLM response may carry
ToolCallLists ==
  { l \in { <<"memory_insert">>, <<"internet_search">>,
            <<"memory_insert", "internet_search">>,
            <<"internet_search", "memory_replace", "read_website">>,
            <<"memory_insert", "memory_insert", "memory_insert", "memory_insert">> } :
      Len(l) <= MaxCalls }

UserContents == {"hi"}

\* The message callLlm returns (json.choices[0].message).  tool_calls lists
\* the tools by name, may be empty and may be absent; a response that calls
\* tools may carry a content as well.
Responses ==
  {[role |-> "assistant", content |-> "answer"],
   [role |-> "assistant", content |-> "answer", tool_calls |-> <<>>]}
  \cup {[role |-> "assistant", content |-> c, tool_calls |-> l] :
          c \in {Null, "thinking"}, l \in ToolCallLists}
NoResponse == [role |-> "none"]

\* variant: an empty tool_calls list counts as tool calls
HasToolCallsMut(message) == "tool_calls" \in DOMAIN message
\* message.tool_calls && message.tool_calls.length > 0
HasToolCalls(message) ==
  /\ "tool_calls" \in DOMAIN message
  /\ Len(message.tool_calls) > 0

\* ------------------------------------------------------------------------
\* Pure helpers
\* ------------------------------------------------------------------------
\* Math.floor(bufferSize * 0.7) in IEEE-754 double arithmetic: for the sizes
\* below the product rounds to just under the integer (90 * 0.7 =
\* 62.99999999999999), so the floor is one less than the exact value.
DoubleRoundsDown == {90, 170, 180}
\* variant: the whole buffer is summarized
FloorPruneMut(n) == n
FloorPrune(n) ==
  IF n \in DoubleRoundsDown THEN (n * PRUNE_PERCENTAGE) \div 100 - 1
  ELSE (n * PRUNE_PERCENTAGE) \div 100

\* Array.prototype.slice(from) / slice(0, to) on a sequence
SliceTo(s, to) == SubSeq(s, 1, to)
\* variant: slice(from) keeps the first element as well
SliceFromMut(s, from) == <<s[1]>> \o SubSeq(s, from + 1, Len(s))
SliceFrom(s, from) == SubSeq(s, from + 1, Len(s))

\* variant: the write replaces the whole table by the one row
InsertOrReplaceMut(tbl, id, row) == (id :> row)
\* INSERT OR REPLACE INTO messages ...
InsertOrReplace(tbl, id, row) == (id :> row) @@ tbl

\* the rows of tbl for the ids of `ids`, in the order of `ids`, ids without a
\* row dropped (SELECT ... WHERE id IN (...), map through messageMap, filter)
RECURSIVE RowsInOrder(_, _)
RowsInOrder(tbl, ids) ==
  IF ids = <<>> THEN <<>>
  ELSE LET rest == RowsInOrder(tbl, Tail(ids))
       IN  IF Head(ids) \in DOMAIN tbl THEN <<tbl[Head(ids)]>> \o rest ELSE rest

\* ------------------------------------------------------------------------
\* Strings and the memory tools
\* ------------------------------------------------------------------------
\* A string is the sequence of its characters.
NL == "\n"

\* index of the first NL of s, 0 when there is none
FirstNL(s) ==
  IF \E i \in 1..Len(s) : s[i] = NL
  THEN CHOOSE i \in 1..Len(s) : s[i] = NL /\ \A j \in 1..(i - 1) : s[j] # NL
  ELSE 0

\* String.prototype.split("\n"): at least one line, "" gives [""]
RECURSIVE SplitLines(_)
SplitLines(s) ==
  IF FirstNL(s) = 0 THEN <<s>>
  ELSE <<SubSeq(s, 1, FirstNL(s) - 1)>> \o SplitLines(SubSeq(s, FirstNL(s) + 1, Len(s)))

\* Array.prototype.join("\n")
RECURSIVE JoinLines(_)
JoinLines(lines) ==
  IF lines = <<>> THEN <<>>
  ELSE IF Len(lines) = 1 THEN lines[1]
  ELSE lines[1] \o <<NL>> \o JoinLines(Tail(lines))

\* variant: a negative start appends after the last element
SpliceMut(lines, start, item) ==
  LET n == Len(lines)
      at == IF start < 0 THEN n
            ELSE IF start > n THEN n ELSE start
  IN  SubSeq(lines, 1, at) \o <<item>> \o SubSeq(lines, at + 1, n)
\* Array.prototype.splice(start, 0, item): a negative start counts from the
\* end, the start is clamped to 0..length, the item goes before the element
\* that was at the start index
Splice(lines, start, item) ==
  LET n == Len(lines)
      at == IF start < 0 THEN (IF n + start < 0 THEN 0 ELSE n + start)
            ELSE IF start > n THEN n ELSE start
  IN  SubSeq(lines, 1, at) \o <<item>> \o SubSeq(lines, at + 1, n)

StartsWith(s, pat) == Len(pat) <= Len(s) /\ SubSeq(s, 1, Len(pat)) = pat

\* String.prototype.replaceAll(old, new) with string arguments: the
\* occurrences are taken left to right without overlap; the empty pattern
\* matches before every character and at the end
RECURSIVE replaceAll(_, _, _)
replaceAll(s, old, new) ==
  IF old = <<>>
  THEN IF s = <<>> THEN new
       ELSE new \o <<Head(s)>> \o replaceAll(Tail(s), old, new)
  ELSE IF s = <<>> THEN <<>>
  ELSE IF StartsWith(s, old)
       THEN new \o replaceAll(SubSeq(s, Len(old) + 1, Len(s)), old, new)
       ELSE <<Head(s)>> \o replaceAll(Tail(s), old, new)

\* the blocks a scope is seeded with: label, value, lastUpdated (description
\* and limit are never read by the tools)
DEFAULT_BLOCKS ==
  << [label |-> "persona", value |-> <<"x", NL, "y">>, lastUpdated |-> 0],
     [label |-> "human", value |-> <<"x">>, lastUpdated |-> 0] >>

\* the default sets of the two kinds of scope (./constants): the DM set is
\* the one above, the guild set differs from it in the persona text
DEFAULT_DM_BLOCKS == DEFAULT_BLOCKS
DEFAULT_GUILD_BLOCKS == [DEFAULT_BLOCKS EXCEPT ![1].value = <<"y", NL, "x">>]

\* arguments of a tool call; a tool reads only the fields of its schema
ToolArgs(label, old_str, new_str, insert_line) ==
  [label |-> label, old_str |-> old_str, new_str |-> new_str,
   insert_line |-> insert_line]
NoArgs == ToolArgs(Null, <<>>, <<>>, 0)

\* variant: every label is taken to be there
HasBlockMut(blks, label) == TRUE
\* agent.memory.blocks.find((b) => b.label === params.label)
HasBlock(blks, label) == \E i \in 1..Len(blks) : blks[i].label = label

\* variant: the edit is applied to every block
EditBlockMut(b, label, value, now) ==
  [b EXCEPT !.value = value, !.lastUpdated = now]
\* the body of blocks.map: the block of the label gets the new value and
\* lastUpdated, every other block is returned as it is
EditBlock(b, label, value, now) ==
  IF b.label = label THEN [b EXCEPT !.value = value, !.lastUpdated = now]
  ELSE b

memoryInsert(blks, params, now) ==
  IF ~HasBlock(blks, params.label)
  THEN [blocks |-> blks, result |-> "Block not found"]
  ELSE [blocks |->
          [i \in 1..Len(blks) |->
             EditBlock(blks[i], params.label,
               JoinLines(Splice(SplitLines(blks[i].value), params.insert_line,
                                params.new_str)),
               now)],
        result |-> "Successfully inserted into memory block"]

\* variant: only the first occurrence is replaced
memoryReplaceMut(blks, params, now) ==
  IF ~HasBlock(blks, params.label)
  THEN [blocks |-> blks, result |-> "Block not found"]
  ELSE [blocks |->
          [i \in 1..Len(blks) |->
             LET s == blks[i].value
                 old == params.old_str
                 At(k) == StartsWith(SubSeq(s, k, Len(s)), old)
                 hits == {k \in 1..(Len(s) + 1) : At(k)}
                 first == CHOOSE k \in hits : \A j \in hits : k <= j
             IN  EditBlock(blks[i], params.label,
                   IF hits = {} THEN s
                   ELSE SubSeq(s, 1, first - 1) \o params.new_str
                        \o SubSeq(s, first + Len(old), Len(s)),
                   now)],
        result |-> "Successfully inserted into memory block"]
memoryReplace(blks, params, now) ==
  IF ~HasBlock(blks, params.label)
  THEN [blocks |-> blks, result |-> "Block not found"]
  ELSE [blocks |->
          [i \in 1..Len(blks) |->
             EditBlock(blks[i], params.label,
               replaceAll(blks[i].value, params.old_str, params.new_str), now)],
        result |-> "Successfully inserted into memory block"]

\* the arguments the model passes to the memory tools inside the loops
LoopArgs(name) ==
  IF name = "memory_insert" THEN ToolArgs("human", <<>>, <<"y">>, -1)
  ELSE ToolArgs("human", <<"x">>, <<"y">>, 0)

\* what a resolved callTool(name, args) of a loop leaves in memory.blocks
ToolEffect(name, blks, now) ==
  IF name = "memory_insert" THEN memoryInsert(blks, LoopArgs(name), now).blocks
  ELSE IF name = "memory_replace" THEN memoryReplace(blks, LoopArgs(name), now).blocks
  ELSE blks

\* variant: every arriving message seeds the blocks again
SeedBlocksMut(idKey, unset, blks) ==
  IF idKey = "userId" THEN DEFAULT_DM_BLOCKS ELSE DEFAULT_GUILD_BLOCKS
\* if (!this.memory.blocks || this.memory.blocks.length === 0) in the boot of
\* a scope whose id key is unset
SeedBlocks(idKey, unset, blks) ==
  IF idKey \in unset /\ blks = <<>>
  THEN IF idKey = "userId" THEN DEFAULT_DM_BLOCKS ELSE DEFAULT_GUILD_BLOCKS
  ELSE blks

\* variant: the calls are executed last to first
NextToolCallMut(tcs, idx) == tcs[Len(tcs) - idx + 1]
\* for (const toolCall of message.tool_calls): the call of the idx-th pass
NextToolCall(tcs, idx) == tcs[idx]

\* variant: the last call of the list is not executed
MoreToolCallsMut(tcs, idx) == idx + 1 < Len(tcs)
\* the for loop has a further pass after the idx-th
MoreToolCalls(tcs, idx) == idx < Len(tcs)

\* ------------------------------------------------------------------------
\* internetSearch / readWebsites: the retry loop
\* ------------------------------------------------------------------------
RETRIES == 3

\* what an attempt may meet: a 2xx response, a 429, another non-OK status, or
\* a fetch that rejects
HttpStatuses == {"ok", "429", "500", "network"}

\* the string returned once the for loop runs out
ErrorString(tool) ==
  IF tool = "internet_search" THEN "Error: Failed to search the internet"
  ELSE "Error: Failed to read the website(s)"

\* variant: one more pass of the loop
AttemptsRemainMut(i) == i <= RETRIES
\* for (let i = 0; i < retries; i++)
AttemptsRemain(i) == i < RETRIES

\* variant: the catch rethrows in every pass
RethrowsMut(i) == TRUE
\* catch (error) { if (i >= retries - 1) throw error; }
Rethrows(i) == i >= RETRIES - 1

NoSplitter == [text |-> <<>>, maxLength |-> 0, remaining |-> <<>>, chunks |-> <<>>,
               phase |-> "idle", posted |-> <<>>]
NoEvent == [t |-> Null]
NoGateway == [phase |-> "idle", event |-> NoEvent, dispatched |-> 0,
              deliveries |-> <<>>, ws |-> 0, open |-> {}, sockets |-> 0,
              starts |-> <<>>]
NoSlackEvent == [type |-> Null]
NoSlack == [phase |-> "idle", event |-> NoSlackEvent, appUserId |-> Null,
            received |-> 0, echoes |-> <<>>, echoesHandled |-> 0,
            calls |-> <<>>]
NoHttp == [tool |-> Null, i |-> 0, phase |-> "idle", statuses |-> <<>>]
NoCall == [tool |-> Null, args |-> NoArgs, before |-> <<>>, now |-> 0,
           result |-> Null, settled |-> "none"]

\* ------------------------------------------------------------------------
\* State
\* ------------------------------------------------------------------------
VARIABLES
  scope,           \* kind of the agent instance: "dm" (dm:<authorId>) or "guild"
  \* --- DM scope ---
  messages,        \* SQL table messages: id -> row
  messageBuffer,   \* memory.messageBuffer
  unsetKeys,       \* persisted keys that have no value yet
  nextUuid,        \* source of fresh uuids
  clock,           \* Date.now()
  llmCallSeq,      \* number of tool-call ids the model has produced
  sent,            \* DM texts sent to the user, in order
  inbound,         \* inbound DMs received so far
  toolRounds,      \* LLM responses with tool calls so far
  summaryCalls,    \* summarization LLM requests made so far
  \* per in-flight handling
  pc,              \* where the handling is suspended
  prune,           \* locals of summarizeAndPruneMessages across its await
  request,         \* the LLM request in flight
  toolCalls,       \* tool_calls of the response being executed
  toolIdx,         \* index of the tool call being awaited
  reply,           \* content returned by doSomethingSmart
  \* history of the current/last handling
  arrival,         \* table and buffer when the inbound message arrived
  pruneCall,       \* last summarizeAndPruneMessages invocation
  outcome          \* how the last handling ended

dmVars == <<messages, messageBuffer, unsetKeys, nextUuid, clock, llmCallSeq,
            sent, inbound, toolRounds, summaryCalls, pc, prune, request,
            toolCalls, toolIdx, reply, arrival, pruneCall, outcome>>

VARIABLES
  \* --- guild scope ---
  channel,             \* the Discord channel: author of message id i at index i
  channelCheckpoints,  \* memory.channelCheckpoints: channel id -> checkpoint
  posts,               \* messages posted by other users during the run
  ctx,                 \* locals of buildContextFromDiscord across its awaits
  guildMessages,       \* the local message list of onGuildMessage
  summarizerInputs     \* the pages passed to summarizeMessages, in call order

guildVars == <<channel, channelCheckpoints, posts, ctx, guildMessages,
               summarizerInputs>>

VARIABLES
  \* --- shared by both scopes ---
  blocks,          \* memory.blocks
  script,          \* per handling: the number of tool calls of each LLM
                   \* response of the loop so far
  \* --- tool calls made on their own (callTool) ---
  toolOps,         \* callTool invocations so far
  lastCall,        \* the last callTool invocation and how it settled
  http             \* the retry loop of internetSearch / readWebsites

toolVars == <<toolOps, lastCall, http>>

VARIABLES
  \* --- history of the handlings ---
  handling,        \* per handler: the number of the inbound message it handles
  ledger,          \* the handling numbers of the writes to the table, the
                   \* buffer, the checkpoints and the blocks, in write order
  response,        \* per handling: the model response last received
  \* --- outside the handlings ---
  splitter,        \* sendDm: the text being split and its chunks
  gateway,         \* DiscordGateway: the dispatch in progress and the
                   \* deliveries made to each agent
  slack            \* the Slack agent: the event being handled and the
                   \* requests made for the events so far

auxVars == <<splitter, gateway, slack>>

vars == <<scope, dmVars, guildVars, blocks, script, toolVars, handling, ledger,
          response, auxVars>>

\* ------------------------------------------------------------------------
\* DM flow: helpers
\* ------------------------------------------------------------------------
Store(tbl, buf) == [messages |-> tbl, messageBuffer |-> buf]

\* variant: the id is pushed without its row being written
addMessageMut(st, m) ==
  [messages |-> st.messages,
   messageBuffer |-> Append(st.messageBuffer, m.id)]
\* addMessage: upsert the row, then push the id on the buffer
addMessage(st, m) ==
  [messages |-> InsertOrReplace(st.messages, m.id,
                  [role |-> m.role, content |-> m.content,
                   tool_calls |-> m.tool_calls, tool_call_id |-> m.tool_call_id]),
   messageBuffer |-> Append(st.messageBuffer, m.id)]

\* a row as the chat message built from it: falsy content is left out
ToMessage(row) ==
  [role |-> row.role,
   content |-> IF row.content = "" THEN Null ELSE row.content,
   tool_calls |-> row.tool_calls,
   tool_call_id |-> row.tool_call_id]

\* getMessages: the rows of the buffer's ids, in buffer order
getMessages(st) ==
  LET rows == RowsInOrder(st.messages, st.messageBuffer)
  IN  [i \in 1..Len(rows) |-> ToMessage(rows[i])]

SystemMessage == [role |-> "system", content |-> "system", tool_calls |-> <<>>,
                  tool_call_id |-> NoId]
NoRequest == [kind |-> "none", messages |-> <<>>]

\* head of the while(true) loop of doSomethingSmart: compile the prompt, read
\* the context window, call the model
ReplyRequest(st) == [kind |-> "reply", messages |-> <<SystemMessage>> \o getMessages(st)]

\* variant: prunes already at MAX_MESSAGES
NeedsPruneMut(bufferSize) == bufferSize >= MAX_MESSAGES
\* summarizeAndPruneMessages up to its await: the guard and the slices
NeedsPrune(bufferSize) == bufferSize > MAX_MESSAGES

NoPrune == [numToRemove |-> 0, idsToSummarize |-> <<>>, idsToKeep |-> <<>>]
\* variant: the kept slice starts one id too late
PruneLocalsMut(buf) ==
  LET numToRemove == FloorPrune(Len(buf))
  IN  [numToRemove |-> numToRemove,
       idsToSummarize |-> SliceTo(buf, numToRemove),
       idsToKeep |-> SliceFrom(buf, numToRemove + 1)]
PruneLocals(buf) ==
  LET numToRemove == FloorPrune(Len(buf))
  IN  [numToRemove |-> numToRemove,
       idsToSummarize |-> SliceTo(buf, numToRemove),
       idsToKeep |-> SliceFrom(buf, numToRemove)]

SummaryRequest(st, pl) ==
  [kind |-> "summary",
   messages |-> <<SystemMessage>> \o
                [i \in 1..Len(RowsInOrder(st.messages, pl.idsToSummarize)) |->
                   ToMessage(RowsInOrder(st.messages, pl.idsToSummarize)[i])]]

\* variant: the summary id is put after the kept ids
PruneCommitMut(st, pl, now) ==
  [messages |-> InsertOrReplace(st.messages, SummaryId(now),
                  [role |-> "user", content |-> "summary", tool_calls |-> <<>>,
                   tool_call_id |-> NoId]),
   messageBuffer |-> pl.idsToKeep \o <<SummaryId(now)>>]
\* the commit of summarizeAndPruneMessages after the summary came back
PruneCommit(st, pl, now) ==
  [messages |-> InsertOrReplace(st.messages, SummaryId(now),
                  [role |-> "user", content |-> "summary", tool_calls |-> <<>>,
                   tool_call_id |-> NoId]),
   messageBuffer |-> <<SummaryId(now)>> \o pl.idsToKeep]

NoPruneCall == [status |-> "none", n |-> 0, before |-> Store(<<>>, <<>>),
                after |-> Store(<<>>, <<>>), llmBefore |-> 0, llmAfter |-> 0]

\* dmOnBoot: every key it seeds is seeded only where unset
dmOnBoot(unset) ==
  IF "userId" \in unset
  THEN unset \ {"userId", "system", "blocks", "messageBuffer"}
  ELSE unset

\* the lowest idle handler takes the next inbound message
Idle(p) == pc[p] = "idle"
Dispatch(p) == Idle(p) /\ \A q \in Handlers : q < p => ~Idle(q)
Sequential == \A q \in Handlers : Idle(q)

\* ------------------------------------------------------------------------
\* DM flow: actions
\* ------------------------------------------------------------------------
\* onDmMessage for a command ("!messages"): no turn is written
DmCommand(p) ==
  /\ scope = "dm"
  /\ UNCHANGED <<toolVars, auxVars>>
  /\ UNCHANGED <<scope, guildVars>>
  /\ inbound < MaxInbound
  /\ Sequential /\ Dispatch(p)
  /\ inbound' = inbound + 1
  /\ unsetKeys' = dmOnBoot(unsetKeys)
  /\ blocks' = SeedBlocks("userId", unsetKeys, blocks)
  /\ script' = [script EXCEPT ![p] = <<>>]
  /\ sent' = Append(sent, "!messages")
  /\ arrival' = [arrival EXCEPT ![p] = Store(messages, messageBuffer)]
  /\ outcome' = [outcome EXCEPT ![p] = "command"]
  /\ pruneCall' = [pruneCall EXCEPT ![p] = NoPruneCall]
  /\ UNCHANGED <<messages, messageBuffer, nextUuid, clock, llmCallSeq, toolRounds,
                 summaryCalls, pc, prune, request, toolCalls, toolIdx, reply>>
  /\ handling' = [handling EXCEPT ![p] = inbound + 1]
  /\ response' = [response EXCEPT ![p] = NoResponse]
  /\ ledger' = IF unsetKeys' # unsetKeys THEN Append(ledger, inbound + 1) ELSE ledger

\* onDmMessage -> doSomethingSmart: addMessage(user), then
\* summarizeAndPruneMessages up to its LLM call, or (no prune) the first
\* model call of the loop
DmAccept(p, content) ==
  /\ scope = "dm"
  /\ UNCHANGED <<toolVars, auxVars>>
  /\ UNCHANGED <<scope, guildVars>>
  /\ inbound < MaxInbound
  /\ Dispatch(p)
  /\ inbound' = inbound + 1
  /\ unsetKeys' = dmOnBoot(unsetKeys)
  /\ blocks' = SeedBlocks("userId", unsetKeys, blocks)
  /\ script' = [script EXCEPT ![p] = <<>>]
  /\ nextUuid' = nextUuid + 1
  /\ arrival' = [arrival EXCEPT ![p] = Store(messages, messageBuffer)]
  /\ outcome' = [outcome EXCEPT ![p] = "running"]
  /\ LET st1 == addMessage(Store(messages, messageBuffer),
                  [id |-> Uuid(nextUuid), role |-> "user", content |-> content,
                   tool_calls |-> <<>>, tool_call_id |-> NoId])
         bufferSize == Len(st1.messageBuffer)
     IN  /\ messages' = st1.messages
         /\ messageBuffer' = st1.messageBuffer
         /\ IF NeedsPrune(bufferSize)
            THEN /\ prune' = [prune EXCEPT ![p] = PruneLocals(st1.messageBuffer)]
                 /\ request' = [request EXCEPT ![p] =
                                  SummaryRequest(st1, PruneLocals(st1.messageBuffer))]
                 /\ summaryCalls' = summaryCalls + 1
                 /\ pc' = [pc EXCEPT ![p] = "await_summary"]
                 /\ pruneCall' = [pruneCall EXCEPT ![p] =
                      [status |-> "pending", n |-> bufferSize, before |-> st1,
                       after |-> st1, llmBefore |-> summaryCalls,
                       llmAfter |-> summaryCalls + 1]]
            ELSE /\ prune' = [prune EXCEPT ![p] = NoPrune]
                 /\ request' = [request EXCEPT ![p] = ReplyRequest(st1)]
                 /\ summaryCalls' = summaryCalls
                 /\ pc' = [pc EXCEPT ![p] = "await_model"]
                 /\ pruneCall' = [pruneCall EXCEPT ![p] =
                      [status |-> "noop", n |-> bufferSize, before |-> st1,
                       after |-> st1, llmBefore |-> summaryCalls,
                       llmAfter |-> summaryCalls]]
  /\ UNCHANGED <<clock, llmCallSeq, sent, toolRounds, toolCalls, toolIdx, reply>>
  /\ handling' = [handling EXCEPT ![p] = inbound + 1]
  /\ response' = [response EXCEPT ![p] = NoResponse]
  /\ ledger' = Append(ledger, inbound + 1)

\* a DM delivered while no other handling is in flight
DmReceive(p, content) == Sequential /\ DmAccept(p, content)

\* variant: the failed prune still drops the ids it meant to summarize
DmSummaryFailsMut(p) ==
  /\ scope = "dm"
  /\ UNCHANGED <<blocks, script, toolVars, handling, ledger, response, auxVars>>
  /\ UNCHANGED <<scope, guildVars>>
  /\ pc[p] = "await_summary"
  /\ messageBuffer' = prune[p].idsToKeep
  /\ pc' = [pc EXCEPT ![p] = "idle"]
  /\ request' = [request EXCEPT ![p] = NoRequest]
  /\ prune' = [prune EXCEPT ![p] = NoPrune]
  /\ outcome' = [outcome EXCEPT ![p] = "summary_failed"]
  /\ pruneCall' = [pruneCall EXCEPT ![p].status = "failed",
                                    ![p].after = Store(messages, messageBuffer'),
                                    ![p].llmAfter = summaryCalls]
  /\ UNCHANGED <<messages, unsetKeys, nextUuid, clock, llmCallSeq,
                 sent, inbound, toolRounds, summaryCalls, toolCalls, toolIdx, reply,
                 arrival>>

\* the summarization callLlm rejects: summarizeAndPruneMessages throws and
\* the handling ends
DmSummaryFails(p) ==
  /\ scope = "dm"
  /\ UNCHANGED <<blocks, script, toolVars, handling, ledger, response, auxVars>>
  /\ UNCHANGED <<scope, guildVars>>
  /\ pc[p] = "await_summary"
  /\ pc' = [pc EXCEPT ![p] = "idle"]
  /\ request' = [request EXCEPT ![p] = NoRequest]
  /\ prune' = [prune EXCEPT ![p] = NoPrune]
  /\ outcome' = [outcome EXCEPT ![p] = "summary_failed"]
  /\ pruneCall' = [pruneCall EXCEPT ![p].status = "failed",
                                    ![p].after = Store(messages, messageBuffer),
                                    ![p].llmAfter = summaryCalls]
  /\ UNCHANGED <<messages, messageBuffer, unsetKeys, nextUuid, clock, llmCallSeq,
                 sent, inbound, toolRounds, summaryCalls, toolCalls, toolIdx, reply,
                 arrival>>

\* the summary comes back: write the summary row, replace the buffer, then
\* enter the loop and make the first model call
DmSummaryReturns(p, dt) ==
  /\ scope = "dm"
  /\ UNCHANGED <<blocks, script, toolVars, handling, response, auxVars>>
  /\ UNCHANGED <<scope, guildVars>>
  /\ pc[p] = "await_summary"
  /\ clock' = clock + dt
  /\ LET st1 == PruneCommit(Store(messages, messageBuffer), prune[p], clock')
     IN  /\ messages' = st1.messages
         /\ messageBuffer' = st1.messageBuffer
         /\ request' = [request EXCEPT ![p] = ReplyRequest(st1)]
         /\ pruneCall' = [pruneCall EXCEPT ![p].status = "committed",
                                           ![p].after = st1,
                                           ![p].llmAfter = summaryCalls]
  /\ pc' = [pc EXCEPT ![p] = "await_model"]
  /\ prune' = [prune EXCEPT ![p] = NoPrune]
  /\ UNCHANGED <<unsetKeys, nextUuid, llmCallSeq, sent, inbound, toolRounds,
                 summaryCalls, toolCalls, toolIdx, reply, arrival, outcome>>
  /\ ledger' = Append(ledger, handling[p])


\* variant: a failed model call is answered with an error text
DmModelFailsMut(p) ==
  /\ scope = "dm"
  /\ UNCHANGED <<blocks, script, toolVars, handling, ledger, response, auxVars>>
  /\ UNCHANGED <<scope, guildVars>>
  /\ pc[p] = "await_model"
  /\ pc' = [pc EXCEPT ![p] = "idle"]
  /\ request' = [request EXCEPT ![p] = NoRequest]
  /\ outcome' = [outcome EXCEPT ![p] = "llm_failed"]
  /\ sent' = Append(sent, "error")
  /\ UNCHANGED <<messages, messageBuffer, unsetKeys, nextUuid, clock, llmCallSeq,
                 inbound, toolRounds, summaryCalls, prune, toolCalls, toolIdx,
                 reply, arrival, pruneCall>>
\* a callLlm of the loop rejects: doSomethingSmart throws, nothing is sent
DmModelFails(p) ==
  /\ scope = "dm"
  /\ UNCHANGED <<blocks, script, toolVars, handling, ledger, response, auxVars>>
  /\ UNCHANGED <<scope, guildVars>>
  /\ pc[p] = "await_model"
  /\ pc' = [pc EXCEPT ![p] = "idle"]
  /\ request' = [request EXCEPT ![p] = NoRequest]
  /\ outcome' = [outcome EXCEPT ![p] = "llm_failed"]
  /\ UNCHANGED <<messages, messageBuffer, unsetKeys, nextUuid, clock, llmCallSeq,
                 sent, inbound, toolRounds, summaryCalls, prune, toolCalls, toolIdx,
                 reply, arrival, pruneCall>>

\* the tool calls of a response: ids as the model issued them
ToolCallsOf(names, seq) ==
  [i \in 1..Len(names) |-> [id |-> CallId(seq + i), name |-> names[i]]]

\* the response carries tool calls: write the assistant turn, call the first
\* tool
DmModelCallsTools(p, message) ==
  /\ HasToolCalls(message)
  /\ scope = "dm"
  /\ UNCHANGED <<blocks, toolVars, handling, auxVars>>
  /\ UNCHANGED <<scope, guildVars>>
  /\ pc[p] = "await_model"
  /\ toolRounds < MaxToolRounds
  /\ toolRounds' = toolRounds + 1
  /\ llmCallSeq' = llmCallSeq + Len(message.tool_calls)
  /\ script' = [script EXCEPT ![p] = Append(@, Len(message.tool_calls))]
  /\ nextUuid' = nextUuid + 1
  /\ LET tcs == ToolCallsOf(message.tool_calls, llmCallSeq)
         st1 == addMessage(Store(messages, messageBuffer),
                  [id |-> Uuid(nextUuid), role |-> "assistant", content |-> Null,
                   tool_calls |-> tcs, tool_call_id |-> NoId])
     IN  /\ messages' = st1.messages
         /\ messageBuffer' = st1.messageBuffer
         /\ toolCalls' = [toolCalls EXCEPT ![p] = tcs]
  /\ toolIdx' = [toolIdx EXCEPT ![p] = 1]
  /\ request' = [request EXCEPT ![p] = NoRequest]
  /\ pc' = [pc EXCEPT ![p] = "exec_tools"]
  /\ UNCHANGED <<unsetKeys, clock, sent, inbound, summaryCalls, prune, reply,
                 arrival, pruneCall, outcome>>
  /\ ledger' = Append(ledger, handling[p])
  /\ response' = [response EXCEPT ![p] = message]

\* variant: the tool turn carries an id no call has
ToolTurnMut(uuid, toolCall) ==
  [id |-> uuid, role |-> "tool", content |-> "result", tool_calls |-> <<>>,
   tool_call_id |-> CallId(0)]
\* the tool-result turn of one executed call
ToolTurn(uuid, toolCall) ==
  [id |-> uuid, role |-> "tool", content |-> "result", tool_calls |-> <<>>,
   tool_call_id |-> toolCall.id]

\* callTool resolves: write the tool turn; call the next tool or, after the
\* last one, the model again
DmToolReturns(p) ==
  /\ scope = "dm"
  /\ UNCHANGED <<script, toolVars, handling, response, auxVars>>
  /\ UNCHANGED <<scope, guildVars>>
  /\ pc[p] = "exec_tools"
  /\ nextUuid' = nextUuid + 1
  /\ blocks' = ToolEffect(NextToolCall(toolCalls[p], toolIdx[p]).name, blocks, clock)
  /\ LET st1 == addMessage(Store(messages, messageBuffer),
                           ToolTurn(Uuid(nextUuid), NextToolCall(toolCalls[p], toolIdx[p])))
     IN  /\ messages' = st1.messages
         /\ messageBuffer' = st1.messageBuffer
         /\ IF MoreToolCalls(toolCalls[p], toolIdx[p])
            THEN /\ toolIdx' = [toolIdx EXCEPT ![p] = @ + 1]
                 /\ UNCHANGED <<pc, request, toolCalls>>
            ELSE /\ toolIdx' = [toolIdx EXCEPT ![p] = 0]
                 /\ toolCalls' = [toolCalls EXCEPT ![p] = <<>>]
                 /\ request' = [request EXCEPT ![p] = ReplyRequest(st1)]
                 /\ pc' = [pc EXCEPT ![p] = "await_model"]
  /\ UNCHANGED <<unsetKeys, clock, llmCallSeq, sent, inbound, toolRounds,
                 summaryCalls, prune, reply, arrival, pruneCall, outcome>>
  /\ ledger' = Append(ledger, handling[p])

\* the promise callTool returned for an asynchronous tool rejects: the
\* rejection leaves the loop and the handling ends
DmToolRejects(p) ==
  /\ scope = "dm"
  /\ UNCHANGED <<blocks, script, toolVars, handling, ledger, response, auxVars>>
  /\ UNCHANGED <<scope, guildVars>>
  /\ pc[p] = "exec_tools"
  /\ NextToolCall(toolCalls[p], toolIdx[p]).name \in AsyncTools
  /\ pc' = [pc EXCEPT ![p] = "idle"]
  /\ toolIdx' = [toolIdx EXCEPT ![p] = 0]
  /\ toolCalls' = [toolCalls EXCEPT ![p] = <<>>]
  /\ outcome' = [outcome EXCEPT ![p] = "tool_failed"]
  /\ UNCHANGED <<messages, messageBuffer, unsetKeys, nextUuid, clock, llmCallSeq,
                 sent, inbound, toolRounds, summaryCalls, prune, request, reply,
                 arrival, pruneCall>>

\* the response has no tool calls: write the final assistant turn and return
\* its content to onDmMessage
DmModelAnswers(p, message) ==
  /\ ~HasToolCalls(message)
  /\ scope = "dm"
  /\ UNCHANGED <<blocks, script, toolVars, handling, auxVars>>
  /\ UNCHANGED <<scope, guildVars>>
  /\ pc[p] = "await_model"
  /\ nextUuid' = nextUuid + 1
  /\ LET st1 == addMessage(Store(messages, messageBuffer),
                  [id |-> Uuid(nextUuid), role |-> "assistant", content |-> message.content,
                   tool_calls |-> <<>>, tool_call_id |-> NoId])
     IN  /\ messages' = st1.messages
         /\ messageBuffer' = st1.messageBuffer
  /\ reply' = [reply EXCEPT ![p] = message.content]
  /\ request' = [request EXCEPT ![p] = NoRequest]
  /\ pc' = [pc EXCEPT ![p] = "send"]
  /\ UNCHANGED <<unsetKeys, clock, llmCallSeq, sent, inbound, toolRounds,
                 summaryCalls, prune, toolCalls, toolIdx, arrival, pruneCall, outcome>>
  /\ ledger' = Append(ledger, handling[p])
  /\ response' = [response EXCEPT ![p] = message]

\* sendDm(reply)
DmSend(p) ==
  /\ scope = "dm"
  /\ UNCHANGED <<blocks, script, toolVars, handling, ledger, response, auxVars>>
  /\ UNCHANGED <<scope, guildVars>>
  /\ pc[p] = "send"
  /\ sent' = Append(sent, reply[p])
  /\ reply' = [reply EXCEPT ![p] = Null]
  /\ pc' = [pc EXCEPT ![p] = "idle"]
  /\ outcome' = [outcome EXCEPT ![p] = "replied"]
  /\ UNCHANGED <<messages, messageBuffer, unsetKeys, nextUuid, clock, llmCallSeq,
                 inbound, toolRounds, summaryCalls, prune, request, toolCalls,
                 toolIdx, arrival, pruneCall>>

\* ------------------------------------------------------------------------
\* DM flow: initial states and specification
\* ------------------------------------------------------------------------
\* The memory and the table are persisted: a constructed agent holds what
\* earlier handlings left.  An initial state is a fresh scope or the state
\* after h plain exchanges (user turn, assistant answer), none of which
\* reaches the prune threshold.
PersistedExchanges == {0, (MAX_MESSAGES \div 2) - 1, MAX_MESSAGES \div 2}

ExchangeRow(k) ==
  IF k % 2 = 1
  THEN [role |-> "user", content |-> "hi", tool_calls |-> <<>>, tool_call_id |-> NoId]
  ELSE [role |-> "assistant", content |-> "answer", tool_calls |-> <<>>,
        tool_call_id |-> NoId]

FreshKeys == {"userId", "guildId", "system", "blocks", "messageBuffer"}

NoCheckpoint == [oldestSeenMessageId |-> 0, summary |-> <<>>]
NoCtx == [channelId |-> Null, content |-> Null, checkpoint |-> NoCheckpoint,
          recentMessages |-> {}, oldestRecent |-> 0, olderMessages |-> {},
          summary |-> <<>>, inputIdx |-> 0]

InitHandlers ==
  /\ clock = 0
  /\ llmCallSeq = 0
  /\ inbound = 0
  /\ toolRounds = 0
  /\ summaryCalls = 0
  /\ pc = [p \in Handlers |-> "idle"]
  /\ prune = [p \in Handlers |-> NoPrune]
  /\ request = [p \in Handlers |-> NoRequest]
  /\ toolCalls = [p \in Handlers |-> <<>>]
  /\ toolIdx = [p \in Handlers |-> 0]
  /\ reply = [p \in Handlers |-> Null]
  /\ arrival = [p \in Handlers |-> Store(<<>>, <<>>)]
  /\ pruneCall = [p \in Handlers |-> NoPruneCall]
  /\ outcome = [p \in Handlers |-> "none"]
  /\ posts = 0
  /\ ctx = [p \in Handlers |-> NoCtx]
  /\ guildMessages = [p \in Handlers |-> <<>>]
  /\ summarizerInputs = <<>>
  /\ channelCheckpoints = <<>>
  /\ script = [p \in Handlers |-> <<>>]
  /\ toolOps = 0
  /\ lastCall = NoCall
  /\ http = NoHttp
  /\ handling = [p \in Handlers |-> 0]
  /\ ledger = <<>>
  /\ response = [p \in Handlers |-> NoResponse]
  /\ slack = NoSlack

InitDm ==
  /\ scope = "dm"
  /\ splitter = NoSplitter
  /\ gateway = NoGateway
  /\ channel = <<>>
  /\ InitHandlers
  /\ \E h \in PersistedExchanges :
       /\ messages = [id \in {Uuid(k) : k \in 1..(2 * h)} |-> ExchangeRow(id[2])]
       /\ messageBuffer = [k \in 1..(2 * h) |-> Uuid(k)]
       /\ nextUuid = 2 * h + 1
       /\ unsetKeys = IF h = 0 THEN FreshKeys ELSE {"guildId"}
       /\ sent = [k \in 1..h |-> "answer"]
       /\ blocks = IF h = 0 THEN <<>> ELSE DEFAULT_DM_BLOCKS

NextDm ==
  \E p \in Handlers :
    \/ DmCommand(p)
    \/ \E content \in UserContents : DmReceive(p, content)
    \/ DmSummaryFails(p)
    \/ \E dt \in {0, 1} : DmSummaryReturns(p, dt)
    \/ DmModelFails(p)
    \/ \E message \in Responses : DmModelCallsTools(p, message)
    \/ DmToolReturns(p)
    \/ DmToolRejects(p)
    \/ \E message \in Responses : DmModelAnswers(p, message)
    \/ DmSend(p)

\* ------------------------------------------------------------------------
\* Guild flow: helpers
\* ------------------------------------------------------------------------
Channels == {"c1"}
BotId == "bot"

Min(S) == CHOOSE x \in S : \A y \in S : x <= y
RECURSIVE SortedSeq(_)
SortedSeq(S) == IF S = {} THEN <<>> ELSE <<Min(S)>> \o SortedSeq(S \ {Min(S)})

\* fetchChannelMessages(channelId, {limit, before}): the `limit` most recent
\* messages of the channel, among those older than `before` when it is given
\* (before = 0: not given).  Message ids are the positions in the channel.
fetchChannelMessages(chan, limit, before) ==
  LET eligible == IF before = 0 THEN 1..Len(chan)
                  ELSE {m \in 1..Len(chan) : m < before}
  IN  {m \in eligible : Cardinality({k \in eligible : k > m}) < limit}

\* channelCheckpoints[channelId] || {}
CheckpointOf(cps, ch) == IF ch \in DOMAIN cps THEN cps[ch] ELSE NoCheckpoint

\* recentMessages.reduce(... BigInt(msg.id) < BigInt(oldest.id) ...)
OldestOf(msgs) == Min(msgs)

needsSummarization(recentMessages, checkpoint) ==
  /\ Cardinality(recentMessages) = PAGE_LIMIT
  /\ \/ checkpoint.oldestSeenMessageId = 0
     \/ OldestOf(recentMessages) # checkpoint.oldestSeenMessageId

\* variant: an empty older page is summarized like any other
HasOlderMut(olderMessages) == TRUE
\* if (olderMessages.length > 0)
HasOlder(olderMessages) == olderMessages # {}

\* variant: the boundary is the oldest message of the older page
NewCheckpointMut(oldestRecent, olderMessages, summary) ==
  [oldestSeenMessageId |-> Min(olderMessages), summary |-> summary]
\* the checkpoint written after a merge: boundary = oldest recent message
NewCheckpoint(oldestRecent, olderMessages, summary) ==
  [oldestSeenMessageId |-> oldestRecent, summary |-> summary]

\* variant: a blank completion empties the summary
MergedSummaryMut(content, previousSummary) == content
\* A summary text is modelled by the sequence of pages merged into it; the
\* empty text is <<>>.  completion.content?.trim() || previousSummary || ""
MergedSummary(content, previousSummary) ==
  IF content # <<>> THEN content ELSE previousSummary

\* toChatHistory: oldest first, the bot's messages as assistant turns
toChatHistory(chan, msgs) ==
  LET sorted == SortedSeq(msgs)
  IN  [i \in 1..Len(sorted) |->
         [role |-> IF chan[sorted[i]] = BotId THEN "assistant" ELSE "user",
          content |-> "history", tool_calls |-> <<>>, tool_call_id |-> NoId]]

\* the message list onGuildMessage builds before its loop
GuildPrompt(chan, summary, recentMessages, content) ==
  <<SystemMessage>>
  \o (IF summary # <<>>
      THEN <<[role |-> "user", content |-> "[Earlier conversation summary]",
              tool_calls |-> <<>>, tool_call_id |-> NoId]>>
      ELSE <<>>)
  \o toChatHistory(chan, recentMessages)
  \o <<[role |-> "user", content |-> content, tool_calls |-> <<>>,
        tool_call_id |-> NoId]>>

guildOnBoot(unset) ==
  IF "guildId" \in unset
  THEN unset \ {"guildId", "system", "blocks", "messageBuffer"}
  ELSE unset

\* variables of the DM flow the guild flow never touches
dmOnlyVars == <<messages, messageBuffer, nextUuid, clock, summaryCalls,
                prune, reply, arrival, pruneCall>>

\* buildContextFromDiscord has returned {summary, recentMessages}:
\* onGuildMessage builds the message list and makes the first model call
GuildEnterLoop(p, summary, recentMessages) ==
  /\ guildMessages' = [guildMessages EXCEPT ![p] =
       GuildPrompt(channel, summary, recentMessages, ctx[p].content)]
  /\ request' = [request EXCEPT ![p] = [kind |-> "reply", messages |-> guildMessages'[p]]]
  /\ pc' = [pc EXCEPT ![p] = "guild_await_model"]

\* ------------------------------------------------------------------------
\* Guild flow: actions
\* ------------------------------------------------------------------------
\* another user posts in the channel without addressing the bot
ChannelPost ==
  /\ scope = "guild"
  /\ UNCHANGED <<blocks, script, toolVars, handling, ledger, response, auxVars>>
  /\ posts < MaxPosts
  /\ posts' = posts + 1
  /\ channel' = Append(channel, "user")
  /\ UNCHANGED <<scope, dmVars, channelCheckpoints, ctx, guildMessages,
                 summarizerInputs>>

\* a message addressing the bot is posted and routed to onGuildMessage:
\* boot, read the checkpoint, fetch the most recent page
GuildReceive(p, ch, content) ==
  /\ scope = "guild"
  /\ UNCHANGED <<toolVars, auxVars>>
  /\ inbound < MaxInbound
  /\ Sequential /\ Dispatch(p)
  /\ inbound' = inbound + 1
  /\ channel' = Append(channel, "user")
  /\ unsetKeys' = guildOnBoot(unsetKeys)
  /\ blocks' = SeedBlocks("guildId", unsetKeys, blocks)
  /\ script' = [script EXCEPT ![p] = <<>>]
  /\ ctx' = [ctx EXCEPT ![p] = [NoCtx EXCEPT !.channelId = ch, !.content = content,
                                  !.checkpoint = CheckpointOf(channelCheckpoints, ch)]]
  /\ guildMessages' = [guildMessages EXCEPT ![p] = <<>>]
  /\ pc' = [pc EXCEPT ![p] = "fetch_recent"]
  /\ outcome' = [outcome EXCEPT ![p] = "running"]
  /\ UNCHANGED <<scope, dmOnlyVars, sent, llmCallSeq, toolRounds, request, toolCalls,
                 toolIdx, channelCheckpoints, posts, summarizerInputs>>
  /\ handling' = [handling EXCEPT ![p] = inbound + 1]
  /\ response' = [response EXCEPT ![p] = NoResponse]
  /\ ledger' = IF unsetKeys' # unsetKeys THEN Append(ledger, inbound + 1) ELSE ledger

\* a fetchChannelMessages rejects (non-OK response): the handling ends
GuildFetchFails(p) ==
  /\ scope = "guild"
  /\ UNCHANGED <<blocks, script, toolVars, handling, ledger, response, auxVars>>
  /\ pc[p] \in {"fetch_recent", "fetch_older"}
  /\ pc' = [pc EXCEPT ![p] = "idle"]
  /\ outcome' = [outcome EXCEPT ![p] = "fetch_failed"]
  /\ UNCHANGED <<scope, dmOnlyVars, sent, unsetKeys, llmCallSeq, inbound, toolRounds,
                 request, toolCalls, toolIdx, guildVars>>

\* the recent page arrives
GuildRecentReturns(p) ==
  /\ scope = "guild"
  /\ UNCHANGED <<blocks, script, toolVars, handling, ledger, response, auxVars>>
  /\ pc[p] = "fetch_recent"
  /\ LET recentMessages == fetchChannelMessages(channel, PAGE_LIMIT, 0)
         checkpoint == ctx[p].checkpoint
     IN  IF recentMessages = {}
         THEN /\ ctx' = [ctx EXCEPT ![p].summary = checkpoint.summary]
              /\ GuildEnterLoop(p, checkpoint.summary, {})
         ELSE IF needsSummarization(recentMessages, checkpoint)
         THEN /\ ctx' = [ctx EXCEPT ![p].recentMessages = recentMessages,
                                    ![p].oldestRecent = OldestOf(recentMessages),
                                    ![p].summary = checkpoint.summary]
              /\ pc' = [pc EXCEPT ![p] = "fetch_older"]
              /\ UNCHANGED <<guildMessages, request>>
         ELSE /\ ctx' = [ctx EXCEPT ![p].recentMessages = recentMessages,
                                    ![p].oldestRecent = OldestOf(recentMessages),
                                    ![p].summary = checkpoint.summary]
              /\ GuildEnterLoop(p, checkpoint.summary, recentMessages)
  /\ UNCHANGED <<scope, dmOnlyVars, sent, unsetKeys, llmCallSeq, inbound, toolRounds,
                 toolCalls, toolIdx, outcome, channel, channelCheckpoints, posts,
                 summarizerInputs>>

\* the older page arrives: non-empty, it goes to summarizeMessages (an LLM
\* call); empty, nothing is merged and the checkpoint stays
GuildOlderReturns(p) ==
  /\ scope = "guild"
  /\ UNCHANGED <<blocks, script, toolVars, handling, ledger, response, auxVars>>
  /\ pc[p] = "fetch_older"
  /\ LET olderMessages == fetchChannelMessages(channel, PAGE_LIMIT, ctx[p].oldestRecent)
     IN  IF HasOlder(olderMessages)
         THEN /\ ctx' = [ctx EXCEPT ![p].olderMessages = olderMessages,
                                    ![p].inputIdx = Len(summarizerInputs) + 1]
              /\ summarizerInputs' = Append(summarizerInputs,
                                            [page |-> olderMessages, status |-> "pending"])
              /\ request' = [request EXCEPT ![p] = [kind |-> "merge", messages |-> <<>>]]
              /\ pc' = [pc EXCEPT ![p] = "await_merge"]
              /\ UNCHANGED guildMessages
         ELSE /\ GuildEnterLoop(p, ctx[p].summary, ctx[p].recentMessages)
              /\ UNCHANGED <<ctx, summarizerInputs>>
  /\ UNCHANGED <<scope, dmOnlyVars, sent, unsetKeys, llmCallSeq, inbound, toolRounds,
                 toolCalls, toolIdx, outcome, channel, channelCheckpoints, posts>>

\* the callLlm of summarizeMessages rejects: the handling ends, no checkpoint
GuildMergeFails(p) ==
  /\ scope = "guild"
  /\ UNCHANGED <<blocks, script, toolVars, handling, ledger, response, auxVars>>
  /\ pc[p] = "await_merge"
  /\ pc' = [pc EXCEPT ![p] = "idle"]
  /\ request' = [request EXCEPT ![p] = NoRequest]
  /\ outcome' = [outcome EXCEPT ![p] = "llm_failed"]
  /\ summarizerInputs' = [summarizerInputs EXCEPT ![ctx[p].inputIdx].status = "failed"]
  /\ UNCHANGED <<scope, dmOnlyVars, sent, unsetKeys, llmCallSeq, inbound, toolRounds,
                 toolCalls, toolIdx, channel, channelCheckpoints, posts, ctx,
                 guildMessages>>

\* summarizeMessages returns: the checkpoint is written, the loop is entered.
\* `merged` tells whether the completion carried a non-blank content.
GuildMergeReturns(p, merged) ==
  /\ scope = "guild"
  /\ UNCHANGED <<blocks, script, toolVars, handling, response, auxVars>>
  /\ pc[p] = "await_merge"
  /\ LET content == IF merged THEN Append(ctx[p].summary, ctx[p].olderMessages)
                    ELSE <<>>
         summary == MergedSummary(content, ctx[p].summary)
     IN  /\ channelCheckpoints' =
              (ctx[p].channelId :>
                 NewCheckpoint(ctx[p].oldestRecent, ctx[p].olderMessages, summary))
              @@ channelCheckpoints
         /\ ctx' = [ctx EXCEPT ![p].summary = summary]
         /\ GuildEnterLoop(p, summary, ctx[p].recentMessages)
  /\ summarizerInputs' = [summarizerInputs EXCEPT ![ctx[p].inputIdx].status =
                            IF merged THEN "merged" ELSE "blank"]
  /\ UNCHANGED <<scope, dmOnlyVars, sent, unsetKeys, llmCallSeq, inbound, toolRounds,
                 toolCalls, toolIdx, outcome, channel, posts>>
  /\ ledger' = Append(ledger, handling[p])

\* a callLlm of the guild loop rejects
GuildModelFails(p) ==
  /\ scope = "guild"
  /\ UNCHANGED <<blocks, script, toolVars, handling, ledger, response, auxVars>>
  /\ pc[p] = "guild_await_model"
  /\ pc' = [pc EXCEPT ![p] = "idle"]
  /\ request' = [request EXCEPT ![p] = NoRequest]
  /\ outcome' = [outcome EXCEPT ![p] = "llm_failed"]
  /\ UNCHANGED <<scope, dmOnlyVars, sent, unsetKeys, llmCallSeq, inbound, toolRounds,
                 toolCalls, toolIdx, guildVars>>

\* the response carries tool calls: push the assistant turn on the local
\* list, call the first tool
GuildModelCallsTools(p, message) ==
  /\ HasToolCalls(message)
  /\ scope = "guild"
  /\ UNCHANGED <<blocks, toolVars, handling, ledger, auxVars>>
  /\ pc[p] = "guild_await_model"
  /\ toolRounds < MaxGuildToolRounds
  /\ toolRounds' = toolRounds + 1
  /\ llmCallSeq' = llmCallSeq + Len(message.tool_calls)
  /\ script' = [script EXCEPT ![p] = Append(@, Len(message.tool_calls))]
  /\ LET tcs == ToolCallsOf(message.tool_calls, llmCallSeq)
     IN  /\ guildMessages' = [guildMessages EXCEPT ![p] =
              Append(@, [role |-> "assistant", content |-> Null,
                         tool_calls |-> tcs, tool_call_id |-> NoId])]
         /\ toolCalls' = [toolCalls EXCEPT ![p] = tcs]
  /\ toolIdx' = [toolIdx EXCEPT ![p] = 1]
  /\ request' = [request EXCEPT ![p] = NoRequest]
  /\ pc' = [pc EXCEPT ![p] = "guild_exec_tools"]
  /\ UNCHANGED <<scope, dmOnlyVars, sent, unsetKeys, inbound, outcome, channel,
                 channelCheckpoints, posts, ctx, summarizerInputs>>
  /\ response' = [response EXCEPT ![p] = message]

\* the chat message pushed for a tool result (no row id on the local list)
GuildToolMessage(toolCall) ==
  LET t == ToolTurn(NoId, toolCall)
  IN  [role |-> t.role, content |-> t.content, tool_calls |-> t.tool_calls,
       tool_call_id |-> t.tool_call_id]

\* callTool resolves in the guild loop
GuildToolReturns(p) ==
  /\ scope = "guild"
  /\ UNCHANGED <<script, toolVars, handling, response, auxVars>>
  /\ pc[p] = "guild_exec_tools"
  /\ blocks' = ToolEffect(NextToolCall(toolCalls[p], toolIdx[p]).name, blocks, clock)
  /\ guildMessages' = [guildMessages EXCEPT ![p] =
       Append(@, GuildToolMessage(NextToolCall(toolCalls[p], toolIdx[p])))]
  /\ IF MoreToolCalls(toolCalls[p], toolIdx[p])
     THEN /\ toolIdx' = [toolIdx EXCEPT ![p] = @ + 1]
          /\ UNCHANGED <<pc, request, toolCalls>>
     ELSE /\ toolIdx' = [toolIdx EXCEPT ![p] = 0]
          /\ toolCalls' = [toolCalls EXCEPT ![p] = <<>>]
          /\ request' = [request EXCEPT ![p] =
                           [kind |-> "reply", messages |-> guildMessages'[p]]]
          /\ pc' = [pc EXCEPT ![p] = "guild_await_model"]
  /\ UNCHANGED <<scope, dmOnlyVars, sent, unsetKeys, llmCallSeq, inbound, toolRounds,
                 outcome, channel, channelCheckpoints, posts, ctx, summarizerInputs>>
  /\ ledger' = IF blocks' # blocks THEN Append(ledger, handling[p]) ELSE ledger

\* the promise of an asynchronous tool rejects in the guild loop
GuildToolRejects(p) ==
  /\ scope = "guild"
  /\ UNCHANGED <<blocks, script, toolVars, handling, ledger, response, auxVars>>
  /\ pc[p] = "guild_exec_tools"
  /\ NextToolCall(toolCalls[p], toolIdx[p]).name \in AsyncTools
  /\ pc' = [pc EXCEPT ![p] = "idle"]
  /\ toolIdx' = [toolIdx EXCEPT ![p] = 0]
  /\ toolCalls' = [toolCalls EXCEPT ![p] = <<>>]
  /\ outcome' = [outcome EXCEPT ![p] = "tool_failed"]
  /\ UNCHANGED <<scope, dmOnlyVars, sent, unsetKeys, llmCallSeq, inbound, toolRounds,
                 request, guildVars>>


\* variant: the answer is stored as a turn, as the DM flow does
GuildModelAnswersMut(p, message) ==
  /\ ~HasToolCalls(message)
  /\ scope = "guild"
  /\ UNCHANGED <<blocks, script, toolVars, handling, ledger, auxVars>>
  /\ pc[p] = "guild_await_model"
  /\ channel' = Append(channel, BotId)
  /\ request' = [request EXCEPT ![p] = NoRequest]
  /\ pc' = [pc EXCEPT ![p] = "idle"]
  /\ outcome' = [outcome EXCEPT ![p] = "replied"]
  /\ LET st1 == addMessage(Store(messages, messageBuffer),
                  [id |-> Uuid(nextUuid), role |-> "assistant",
                   content |-> message.content, tool_calls |-> <<>>,
                   tool_call_id |-> NoId])
     IN  /\ messages' = st1.messages
         /\ messageBuffer' = st1.messageBuffer
  /\ nextUuid' = nextUuid + 1
  /\ UNCHANGED <<clock, summaryCalls, prune, reply, arrival, pruneCall>>
  /\ UNCHANGED <<scope, unsetKeys, llmCallSeq, inbound, toolRounds,
                 toolCalls, toolIdx, channelCheckpoints, posts, ctx, guildMessages,
                 summarizerInputs>>
  /\ response' = [response EXCEPT ![p] = message]
  /\ sent' = Append(sent, message.content)
\* the response has no tool calls: sendChannelMessage(channelId, content);
\* nothing is stored
GuildModelAnswers(p, message) ==
  /\ ~HasToolCalls(message)
  /\ scope = "guild"
  /\ UNCHANGED <<blocks, script, toolVars, handling, ledger, auxVars>>
  /\ pc[p] = "guild_await_model"
  /\ channel' = Append(channel, BotId)
  /\ request' = [request EXCEPT ![p] = NoRequest]
  /\ pc' = [pc EXCEPT ![p] = "idle"]
  /\ outcome' = [outcome EXCEPT ![p] = "replied"]
  /\ UNCHANGED <<scope, dmOnlyVars, unsetKeys, llmCallSeq, inbound, toolRounds,
                 toolCalls, toolIdx, channelCheckpoints, posts, ctx, guildMessages,
                 summarizerInputs>>
  /\ response' = [response EXCEPT ![p] = message]
  /\ sent' = Append(sent, message.content)

\* ------------------------------------------------------------------------
\* Guild flow: initial states
\* ------------------------------------------------------------------------
\* The channel is external: the bot may be addressed in a channel of any
\* history length.
ChannelHistories == {0, PAGE_LIMIT - 1, PAGE_LIMIT + (PAGE_LIMIT \div 2),
                     2 * PAGE_LIMIT + (PAGE_LIMIT \div 2)}

InitGuild ==
  /\ scope = "guild"
  /\ splitter = NoSplitter
  /\ gateway = NoGateway
  /\ blocks = <<>>
  /\ InitHandlers
  /\ \E n \in ChannelHistories : channel = [i \in 1..n |-> "user"]
  /\ messages = <<>>
  /\ messageBuffer = <<>>
  /\ nextUuid = 1
  /\ unsetKeys = FreshKeys
  /\ sent = <<>>

NextGuild ==
  \/ ChannelPost
  \/ \E p \in Handlers :
       \/ \E ch \in Channels, content \in UserContents : GuildReceive(p, ch, content)
       \/ GuildFetchFails(p)
       \/ GuildRecentReturns(p)
       \/ GuildOlderReturns(p)
       \/ GuildMergeFails(p)
       \/ \E merged \in BOOLEAN : GuildMergeReturns(p, merged)
       \/ GuildModelFails(p)
       \/ \E message \in Responses : GuildModelCallsTools(p, message)
       \/ GuildToolReturns(p)
       \/ GuildToolRejects(p)
       \/ \E message \in Responses : GuildModelAnswers(p, message)

\* ------------------------------------------------------------------------
\* Specification
\* ------------------------------------------------------------------------
Init == InitDm \/ InitGuild
Next == NextDm \/ NextGuild
Spec == Init /\ [][Next]_vars

\* ------------------------------------------------------------------------
\* The tools on their own: callTool invoked on a booted agent, one call at a
\* time, with arguments drawn from small sets
\* ------------------------------------------------------------------------
ArgLabels == {"persona", "human", "missing"}
InsertStrs == {<<>>, <<"y">>}
InsertLines == {-7, -1, 0, 1, 7}
OldStrs == {<<>>, <<"x">>, <<"x", "x">>}
NewStrs == {<<>>, <<"y">>, <<"x", "y">>}
\* values the first block may hold when a call arrives
BlockValues == {<<>>, <<"x">>, <<"x", NL, "x", "x">>, <<"x", NL, "y", NL, "x">>}

\* what a tool call on its own leaves alone
callFrame == <<scope, guildVars, script, handling, ledger, response, auxVars, messages, messageBuffer, unsetKeys,
               nextUuid, llmCallSeq, sent, inbound, toolRounds, summaryCalls, pc,
               prune, request, toolCalls, toolIdx, reply, arrival, pruneCall,
               outcome>>

\* callTool("memory_insert", params)
CallMemoryInsert(params) ==
  /\ scope = "memory"
  /\ toolOps < MaxToolOps
  /\ toolOps' = toolOps + 1
  /\ clock' = clock + 1
  /\ LET r == memoryInsert(blocks, params, clock')
     IN  /\ blocks' = r.blocks
         /\ lastCall' = [tool |-> "memory_insert", args |-> params,
                         before |-> blocks, now |-> clock', result |-> r.result,
                         settled |-> "resolved"]
  /\ UNCHANGED <<callFrame, http>>

\* callTool("memory_replace", params)
CallMemoryReplace(params) ==
  /\ scope = "memory"
  /\ toolOps < MaxToolOps
  /\ toolOps' = toolOps + 1
  /\ clock' = clock + 1
  /\ LET r == memoryReplace(blocks, params, clock')
     IN  /\ blocks' = r.blocks
         /\ lastCall' = [tool |-> "memory_replace", args |-> params,
                         before |-> blocks, now |-> clock', result |-> r.result,
                         settled |-> "resolved"]
  /\ UNCHANGED <<callFrame, http>>

\* the retry loop settles: callTool hands the promise of the tool through, so
\* it resolves or rejects as the tool does
HttpSettles(h, settled, result) ==
  /\ http' = [h EXCEPT !.phase = "done"]
  /\ lastCall' = [lastCall EXCEPT !.settled = settled, !.result = result]

\* the next pass of the for loop: i++, then fetch again or, the loop being
\* over, return the error string
HttpNextPass(h) ==
  IF AttemptsRemain(h.i + 1)
  THEN /\ http' = [h EXCEPT !.i = h.i + 1, !.phase = "fetching"]
       /\ UNCHANGED lastCall
  ELSE HttpSettles(h, "resolved", ErrorString(h.tool))

\* callTool("internet_search" | "read_website", params): the first fetch
CallHttpTool(tool) ==
  /\ scope = "http"
  /\ toolOps < MaxToolOps
  /\ http.phase \in {"idle", "done"}
  /\ toolOps' = toolOps + 1
  /\ http' = [tool |-> tool, i |-> 0, phase |-> "fetching", statuses |-> <<>>]
  /\ lastCall' = [tool |-> tool, args |-> NoArgs, before |-> blocks, now |-> clock,
                  result |-> Null, settled |-> "pending"]
  /\ UNCHANGED <<callFrame, clock, blocks>>

\* the fetch of the current pass settles: a 429 starts the 5 s timer; a 2xx
\* returns the body; any other outcome throws into the catch, which rethrows
\* in the last pass and otherwise lets the loop go on
HttpResponds(status) ==
  /\ scope = "http"
  /\ http.phase = "fetching"
  /\ LET h == [http EXCEPT !.statuses = Append(@, status)]
     IN  IF status = "429"
         THEN /\ http' = [h EXCEPT !.phase = "sleeping"]
              /\ UNCHANGED lastCall
         ELSE IF status = "ok" THEN HttpSettles(h, "resolved", "text")
         ELSE IF Rethrows(h.i) THEN HttpSettles(h, "rejected", "error")
         ELSE HttpNextPass(h)
  /\ UNCHANGED <<callFrame, clock, blocks, toolOps>>

\* the 5 s timer after a 429 fires: continue
HttpWakes ==
  /\ scope = "http"
  /\ http.phase = "sleeping"
  /\ HttpNextPass(http)
  /\ UNCHANGED <<callFrame, clock, blocks, toolOps>>

InitTools ==
  /\ scope \in {"memory", "http"}
  /\ splitter = NoSplitter
  /\ gateway = NoGateway
  /\ InitHandlers
  /\ channel = <<>>
  /\ messages = <<>>
  /\ messageBuffer = <<>>
  /\ nextUuid = 1
  /\ unsetKeys = {}
  /\ sent = <<>>
  /\ IF scope = "memory"
     THEN \E v \in BlockValues : blocks = [DEFAULT_BLOCKS EXCEPT ![1].value = v]
     ELSE blocks = DEFAULT_BLOCKS

NextTools ==
  \/ \E label \in ArgLabels, new_str \in InsertStrs, insert_line \in InsertLines :
       CallMemoryInsert(ToolArgs(label, <<>>, new_str, insert_line))
  \/ \E label \in ArgLabels, old_str \in OldStrs, new_str \in NewStrs :
       CallMemoryReplace(ToolArgs(label, old_str, new_str, 0))
  \/ \E tool \in AsyncTools : CallHttpTool(tool)
  \/ \E status \in HttpStatuses : HttpResponds(status)
  \/ HttpWakes

SpecTools == InitTools /\ [][NextTools]_vars

\* ------------------------------------------------------------------------
\* DM flow, messages delivered as they come: the gateway calls onDmMessage
\* for every dispatch without waiting for the previous call to return, and
\* a handling that awaits an LLM, tool or platform call lets the next
\* delivery run
\* ------------------------------------------------------------------------
\* the model responses drawn while handlings overlap: an answer, or one call
\* of a memory tool or of an HTTP tool
ConcurrentResponses ==
  {m \in Responses :
     \/ "tool_calls" \notin DOMAIN m
     \/ m.content = Null /\ Len(m.tool_calls) = 1}

NextConcurrent ==
  \E p \in Handlers :
    \/ \E content \in UserContents : DmAccept(p, content)
    \/ DmSummaryFails(p)
    \/ \E dt \in {0, 1} : DmSummaryReturns(p, dt)
    \/ DmModelFails(p)
    \/ \E message \in ConcurrentResponses :
         toolRounds < MaxConcurrentToolRounds /\ DmModelCallsTools(p, message)
    \/ DmToolReturns(p)
    \/ DmToolRejects(p)
    \/ \E message \in ConcurrentResponses : DmModelAnswers(p, message)
    \/ DmSend(p)

SpecConcurrent == InitDm /\ [][NextConcurrent]_vars

\* ------------------------------------------------------------------------
\* sendDm on its own: a text is split by splitMessageByNewline and its
\* chunks are posted one by one
\* ------------------------------------------------------------------------
Chars == {"a", " ", NL}
Texts == UNION {[1..n -> Chars] : n \in 0..MaxTextLen}
ChunkLimits == 1..MaxChunkLen

\* String.prototype.lastIndexOf(ch, from), indices from 0: the search runs
\* backwards from min(from, length - 1); -1 when ch is not found
RECURSIVE lastIndexOf(_, _, _)
lastIndexOf(s, ch, from) ==
  IF from < 0 THEN -1
  ELSE IF from < Len(s) /\ s[from + 1] = ch THEN from
  ELSE lastIndexOf(s, ch, from - 1)

\* String.prototype.substring(start, end) and substring(start), indices
\* from 0, end exclusive
substring(s, start, end) ==
  SubSeq(s, start + 1, IF end < Len(s) THEN end ELSE Len(s))
\* variant: substring(start) returns the whole string
substringFromMut(s, start) == s
substringFrom(s, start) == SubSeq(s, start + 1, Len(s))

\* variant: the search for a break starts one character too far
SplitIndexMut(remaining, maxLength) ==
  LET nl == lastIndexOf(remaining, NL, maxLength + 1)
      sp == lastIndexOf(remaining, " ", maxLength + 1)
  IN  IF nl # -1 /\ nl # 0 THEN nl
      ELSE IF sp # -1 /\ sp # 0 THEN sp
      ELSE maxLength
\* the split index of one pass: the last line break, else the last space,
\* else the limit itself
SplitIndex(remaining, maxLength) ==
  LET nl == lastIndexOf(remaining, NL, maxLength)
      sp == lastIndexOf(remaining, " ", maxLength)
  IN  IF nl # -1 /\ nl # 0 THEN nl
      ELSE IF sp # -1 /\ sp # 0 THEN sp
      ELSE maxLength

splitFrame == <<scope, dmVars, guildVars, blocks, script, toolVars, handling,
                ledger, response, gateway, slack>>

\* sendDm(msg) up to the loop of splitMessageByNewline: a text within the
\* limit is its only chunk
SplitCall ==
  /\ scope = "split"
  /\ splitter.phase = "idle"
  /\ splitter' =
       IF Len(splitter.text) <= splitter.maxLength
       THEN [splitter EXCEPT !.chunks = <<splitter.text>>, !.phase = "sending"]
       ELSE [splitter EXCEPT !.remaining = splitter.text, !.phase = "splitting"]
  /\ UNCHANGED splitFrame

\* one pass of while (remaining.length > 0)
SplitPass ==
  /\ scope = "split"
  /\ splitter.phase = "splitting"
  /\ LET remaining == splitter.remaining
         maxLength == splitter.maxLength
         splitIndex == SplitIndex(remaining, maxLength)
     IN  splitter' =
           IF Len(remaining) = 0
           THEN [splitter EXCEPT !.phase = "sending"]
           ELSE IF Len(remaining) <= maxLength
           THEN [splitter EXCEPT !.chunks = Append(@, remaining),
                                 !.phase = "sending"]
           ELSE [splitter EXCEPT !.chunks = Append(@, substring(remaining, 0, splitIndex)),
                                 !.remaining = substringFrom(remaining, splitIndex + 1)]
  /\ UNCHANGED splitFrame

\* one pass of for (const chunk of chunks): sendChannelMessage posts the
\* chunk; a non-OK answer is logged and the loop goes on
SendChunk(ok) ==
  /\ scope = "split"
  /\ splitter.phase = "sending"
  /\ LET i == Len(splitter.posted) + 1
     IN  splitter' =
           IF i > Len(splitter.chunks)
           THEN [splitter EXCEPT !.phase = "done"]
           ELSE [splitter EXCEPT !.posted =
                   Append(@, [chunk |-> splitter.chunks[i], ok |-> ok])]
  /\ UNCHANGED splitFrame

\* the request of a chunk rejects: sendDm throws, the chunks left are not
\* posted
SendChunkFails ==
  /\ scope = "split"
  /\ splitter.phase = "sending"
  /\ Len(splitter.posted) < Len(splitter.chunks)
  /\ splitter' = [splitter EXCEPT !.phase = "failed"]
  /\ UNCHANGED splitFrame

InitSplit ==
  /\ scope = "split"
  /\ InitHandlers
  /\ channel = <<>>
  /\ messages = <<>>
  /\ messageBuffer = <<>>
  /\ nextUuid = 1
  /\ unsetKeys = {}
  /\ sent = <<>>
  /\ blocks = DEFAULT_DM_BLOCKS
  /\ gateway = NoGateway
  /\ \E text \in Texts, maxLength \in ChunkLimits :
       splitter = [NoSplitter EXCEPT !.text = text, !.maxLength = maxLength]

NextSplit ==
  \/ SplitCall
  \/ SplitPass
  \/ \E ok \in BOOLEAN : SendChunk(ok)
  \/ SendChunkFails

SpecSplit == InitSplit /\ [][NextSplit]_vars

\* splitMessageByNewline is synchronous: once called it runs pass after pass
\* until it returns
SpecSplitFair == SpecSplit /\ WF_vars(SplitCall) /\ WF_vars(SplitPass)

\* ------------------------------------------------------------------------
\* The gateway on its own: onDispatch routes the events of the WebSocket to
\* the agents, one agent per scope name
\* ------------------------------------------------------------------------
\* what Discord answers when isInBotStartedThread asks about the channel
ThreadFacts == {"channel_fetch_failed", "not_thread", "owned_thread",
                "bot_starter", "user_starter", "starter_fetch_failed"}

\* the payloads d of the dispatched events, by the fields onDispatch reads
Events ==
  [t : {"MESSAGE_CREATE", "TYPING_START"},
   bot : BOOLEAN,
   content : {"", "hi"},
   guild_id : {Null, "g1"},
   author : {"u1", "u2"},
   mentions : SUBSET {BotId, "u2"},
   thread : ThreadFacts]

\* t === "MESSAGE_CREATE" && !d.author?.bot && !!d.content
Routable(d) == d.t = "MESSAGE_CREATE" /\ ~d.bot /\ d.content # ""

\* Array.isArray(d.mentions) && d.mentions.some((m) => m.id === botId)
Mentioned(d) == BotId \in d.mentions

\* variant: every thread counts as started by the bot
isInBotStartedThreadMut(fact) ==
  fact \in {"owned_thread", "bot_starter", "user_starter", "starter_fetch_failed"}
\* isInBotStartedThread: a thread owned by the bot, or whose starter message
\* the bot wrote; false for any failed fetch
isInBotStartedThread(fact) == fact \in {"owned_thread", "bot_starter"}

\* `dm:${d.author.id}` and `guild:${d.guild_id}`
DmAgent(d) == <<"dm", d.author>>
GuildAgent(d) == <<"guild", d.guild_id>>

gatewayFrame == <<scope, dmVars, guildVars, blocks, script, toolVars, handling,
                  ledger, response, splitter, slack>>

\* onDispatch(t, d) up to its first await: events that are no message of a
\* user are dropped, a DM goes to its agent, a guild message waits for the
\* thread check
GatewayDispatch(d) ==
  /\ scope = "gateway"
  /\ gateway.phase = "idle"
  /\ gateway.dispatched < MaxDispatches
  /\ gateway' =
       IF ~Routable(d)
       THEN [gateway EXCEPT !.dispatched = @ + 1]
       ELSE [gateway EXCEPT !.dispatched = @ + 1, !.event = d,
                            !.phase = IF d.guild_id = Null THEN "deliver_dm"
                                      ELSE "thread_check"]
  /\ UNCHANGED gatewayFrame

\* isInBotStartedThread has returned: the message is dropped unless the bot
\* is mentioned or the thread is the bot's
GatewayThreadChecked ==
  /\ scope = "gateway"
  /\ gateway.phase = "thread_check"
  /\ LET d == gateway.event
         mentioned == Mentioned(d)
         inBotThread == isInBotStartedThread(d.thread)
     IN  gateway' =
           IF ~mentioned /\ ~inBotThread
           THEN [gateway EXCEPT !.phase = "idle", !.event = NoEvent]
           ELSE [gateway EXCEPT !.phase = "deliver_guild"]
  /\ UNCHANGED gatewayFrame

\* agent.onDmMessage(...) / agent.onGuildMessage(...) on the agent of the
\* scope
GatewayDeliver ==
  /\ scope = "gateway"
  /\ gateway.phase \in {"deliver_dm", "deliver_guild"}
  /\ LET d == gateway.event
         call == IF gateway.phase = "deliver_dm"
                 THEN [agent |-> DmAgent(d), method |-> "onDmMessage",
                       id |-> gateway.dispatched]
                 ELSE [agent |-> GuildAgent(d), method |-> "onGuildMessage",
                       id |-> gateway.dispatched]
     IN  gateway' = [gateway EXCEPT !.deliveries = Append(@, call),
                                    !.phase = "idle", !.event = NoEvent]
  /\ UNCHANGED gatewayFrame

InitGateway ==
  /\ scope = "gateway"
  /\ InitHandlers
  /\ channel = <<>>
  /\ messages = <<>>
  /\ messageBuffer = <<>>
  /\ nextUuid = 1
  /\ unsetKeys = FreshKeys
  /\ sent = <<>>
  /\ blocks = <<>>
  /\ splitter = NoSplitter
  /\ gateway = NoGateway

NextGateway ==
  \/ \E d \in Events : GatewayDispatch(d)
  \/ GatewayThreadChecked
  \/ GatewayDeliver

SpecGateway == InitGateway /\ [][NextGateway]_vars

\* ------------------------------------------------------------------------
\* The gateway's connection: start() and the close event.  gateway.ws is
\* this.ws (0: null), gateway.open the sockets that were accepted, had
\* their listeners registered and have not closed, gateway.starts the calls
\* of start() by where each stands.
\* ------------------------------------------------------------------------
\* start() up to its first await: `if (this.ws) return;`, else the fetch of
\* the gateway url is under way
EnterStart(g) ==
  [g EXCEPT !.starts = Append(@, IF g.ws # 0 THEN "skipped" ELSE "gateway_url")]

\* POST /start: the worker calls gateway.start()
GatewayStart ==
  /\ scope = "socket"
  /\ Len(gateway.starts) < MaxStarts
  /\ gateway' = EnterStart(gateway)
  /\ UNCHANGED gatewayFrame

\* the gateway url came back: start() fetches the WebSocket upgrade
StartUrlReturns(i) ==
  /\ scope = "socket"
  /\ i \in 1..Len(gateway.starts)
  /\ gateway.starts[i] = "gateway_url"
  /\ gateway' = [gateway EXCEPT !.starts[i] = "upgrade"]
  /\ UNCHANGED gatewayFrame

\* the upgrade came back with a socket: accept it, register the listeners,
\* then this.ws = ws
StartUpgradeReturns(i) ==
  /\ scope = "socket"
  /\ i \in 1..Len(gateway.starts)
  /\ gateway.starts[i] = "upgrade"
  /\ gateway' = [gateway EXCEPT !.starts[i] = "done",
                                !.sockets = @ + 1,
                                !.open = @ \cup {gateway.sockets + 1},
                                !.ws = gateway.sockets + 1]
  /\ UNCHANGED gatewayFrame

\* a fetch of start() rejects, or the response carries no socket: start()
\* throws
StartFails(i) ==
  /\ scope = "socket"
  /\ i \in 1..Len(gateway.starts)
  /\ gateway.starts[i] \in {"gateway_url", "upgrade"}
  /\ gateway' = [gateway EXCEPT !.starts[i] = "failed"]
  /\ UNCHANGED gatewayFrame

\* the close event of an open socket: handleClose sets this.ws = null and
\* calls start()
SocketCloses(s) ==
  /\ scope = "socket"
  /\ s \in gateway.open
  /\ Len(gateway.starts) < MaxStarts
  /\ gateway' = EnterStart([gateway EXCEPT !.open = @ \ {s}, !.ws = 0])
  /\ UNCHANGED gatewayFrame

InitSocket ==
  /\ scope = "socket"
  /\ InitHandlers
  /\ channel = <<>>
  /\ messages = <<>>
  /\ messageBuffer = <<>>
  /\ nextUuid = 1
  /\ unsetKeys = FreshKeys
  /\ sent = <<>>
  /\ blocks = <<>>
  /\ splitter = NoSplitter
  /\ gateway = NoGateway

NextSocket ==
  \/ GatewayStart
  \/ \E i \in 1..MaxStarts :
       \/ StartUrlReturns(i)
       \/ StartUpgradeReturns(i)
       \/ StartFails(i)
       \/ SocketCloses(i)

SpecSocket == InitSocket /\ [][NextSocket]_vars

\* ------------------------------------------------------------------------
\* The Slack agent: onSlackEvent, one event at a time.  slack.calls lists
\* the requests made (auth.test, conversations.history,
\* conversations.replies, the chat completion, chat.postMessage), each with
\* the event it was made for.
\* ------------------------------------------------------------------------
AppUserId == "UBOT"

\* Events as the Events API delivers them: bot_id and subtype are absent or
\* a non-empty string; mentions are the ids of the <@...> tokens of the
\* text.  own marks the event Slack emits for a message the agent posted;
\* the code never reads it.
SlackEvents ==
  [type : {"message", "app_mention", "reaction_added"},
   bot_id : {Null, "B1"},
   subtype : {Null, "channel_join"},
   channel : {"D1", "C1"},
   mentions : {{}, {AppUserId}},
   own : {FALSE}]

\* the message event of a post made with the bot token: it carries the
\* bot's bot_id
OwnPost(channelId, mentions) ==
  [type |-> "message", bot_id |-> "B1", subtype |-> Null, channel |-> channelId,
   mentions |-> mentions, own |-> TRUE]

\* variant: only events with a subtype are dropped
IgnoredMut(event) == event.subtype # Null
\* if (event.bot_id || event.subtype) return;
Ignored(event) == event.bot_id # Null \/ event.subtype # Null

\* (e.channel || "").startsWith("D")
isDM(event) == event.channel = "D1"
\* (e.text || "").includes(`<@${appUserId}>`)
mentioned(event, appUserId) == appUserId \in event.mentions

SlackCall(kind, event) == [kind |-> kind, event |-> event]

\* the message branch once the app user id is known: leave, or fetch the
\* conversation
AfterAppUserId(sl, event, appUserId) ==
  IF ~isDM(event) /\ ~mentioned(event, appUserId)
  THEN [sl EXCEPT !.phase = "idle", !.event = NoSlackEvent,
                  !.appUserId = appUserId]
  ELSE [sl EXCEPT !.phase = "history", !.event = event,
                  !.appUserId = appUserId,
                  !.calls = Append(@, SlackCall("history", event))]

\* onSlackEvent up to its first await
EnterSlackEvent(sl, event) ==
  IF Ignored(event) THEN sl
  ELSE IF event.type = "message"
  THEN IF sl.appUserId # Null THEN AfterAppUserId(sl, event, sl.appUserId)
       ELSE [sl EXCEPT !.phase = "auth", !.event = event,
                       !.calls = Append(@, SlackCall("auth", event))]
  ELSE IF event.type = "app_mention"
  THEN [sl EXCEPT !.phase = "thread", !.event = event,
                  !.calls = Append(@, SlackCall("thread", event))]
  ELSE sl

slackFrame == <<scope, dmVars, guildVars, blocks, script, toolVars, handling,
                ledger, response, splitter, gateway>>

\* an event of the workspace arrives
SlackReceive(event) ==
  /\ scope = "slack"
  /\ slack.phase = "idle"
  /\ slack.received < MaxSlackEvents
  /\ slack' = EnterSlackEvent([slack EXCEPT !.received = @ + 1], event)
  /\ UNCHANGED slackFrame

\* the event of a message the agent posted arrives
SlackReceiveOwn ==
  /\ scope = "slack"
  /\ slack.phase = "idle"
  /\ slack.echoes # <<>>
  /\ slack' = EnterSlackEvent([slack EXCEPT !.echoes = Tail(@),
                                            !.echoesHandled = @ + 1],
                              Head(slack.echoes))
  /\ UNCHANGED slackFrame

\* generateAIReply up to its await of the completion: with the app user id
\* cached the chat completion is requested, otherwise auth.test first
EnterGenerate(sl) ==
  IF sl.appUserId # Null
  THEN [sl EXCEPT !.phase = "llm", !.calls = Append(@, SlackCall("llm", sl.event))]
  ELSE [sl EXCEPT !.phase = "auth_reply",
                  !.calls = Append(@, SlackCall("auth", sl.event))]

\* auth.test answers: json.user_id || "UNKNOWN" is cached
SlackAuthReturns(userId) ==
  /\ scope = "slack"
  /\ slack.phase \in {"auth", "auth_reply"}
  /\ slack' = IF slack.phase = "auth"
              THEN AfterAppUserId(slack, slack.event, userId)
              ELSE EnterGenerate([slack EXCEPT !.appUserId = userId])
  /\ UNCHANGED slackFrame

\* fetchConversation / fetchThread returns the messages
SlackHistoryReturns ==
  /\ scope = "slack"
  /\ slack.phase \in {"history", "thread"}
  /\ slack' = EnterGenerate(slack)
  /\ UNCHANGED slackFrame

\* the completion returns: without content generateAIReply throws, with
\* content sendMessage posts it
SlackLlmReturns(hasContent) ==
  /\ scope = "slack"
  /\ slack.phase = "llm"
  /\ slack' = IF hasContent
              THEN [slack EXCEPT !.phase = "send",
                                 !.calls = Append(@, SlackCall("post", slack.event))]
              ELSE [slack EXCEPT !.phase = "idle", !.event = NoSlackEvent]
  /\ UNCHANGED slackFrame

\* chat.postMessage answers; a post Slack accepted comes back as an event
SlackSendReturns(accepted, mentions) ==
  /\ scope = "slack"
  /\ slack.phase = "send"
  /\ slack' = [slack EXCEPT !.phase = "idle", !.event = NoSlackEvent,
                            !.echoes = IF accepted
                                       THEN Append(@, OwnPost(slack.event.channel, mentions))
                                       ELSE @]
  /\ UNCHANGED slackFrame

\* a request rejects, or conversations.* answers ok: false: the handler
\* throws
SlackCallFails ==
  /\ scope = "slack"
  /\ slack.phase \in {"auth", "auth_reply", "history", "thread", "llm", "send"}
  /\ slack' = [slack EXCEPT !.phase = "idle", !.event = NoSlackEvent]
  /\ UNCHANGED slackFrame

InitSlack ==
  /\ scope = "slack"
  /\ InitHandlers
  /\ channel = <<>>
  /\ messages = <<>>
  /\ messageBuffer = <<>>
  /\ nextUuid = 1
  /\ unsetKeys = FreshKeys
  /\ sent = <<>>
  /\ blocks = <<>>
  /\ splitter = NoSplitter
  /\ gateway = NoGateway

NextSlack ==
  \/ \E event \in SlackEvents : SlackReceive(event)
  \/ SlackReceiveOwn
  \/ \E userId \in {AppUserId, "UNKNOWN"} : SlackAuthReturns(userId)
  \/ SlackHistoryReturns
  \/ \E hasContent \in BOOLEAN : SlackLlmReturns(hasContent)
  \/ \E accepted \in BOOLEAN, mentions \in {{}, {AppUserId}} :
       SlackSendReturns(accepted, mentions)
  \/ SlackCallFails

SpecSlack == InitSlack /\ [][NextSlack]_vars

\* ------------------------------------------------------------------------
\* Properties
\* ------------------------------------------------------------------------
\* floor(n * 0.7) over the integers
Floor70(n) == (n * 7) \div 10

Committed(p) == pruneCall[p].status = "committed"

IsSummaryId(id) == id[1] = SUMMARY_MESSAGE_ID_PREFIX

C3_NoPruneAtOrBelowMax ==
  \A p \in Handlers :
    (pruneCall[p].status # "none" /\ pruneCall[p].n <= MAX_MESSAGES) =>
      /\ pruneCall[p].status = "noop"
      /\ pruneCall[p].llmAfter = pruneCall[p].llmBefore
      /\ pruneCall[p].after = pruneCall[p].before
      /\ pc[p] = "await_model" /\ toolRounds = 0 /\ outcome[p] = "running" =>
           /\ request[p].kind = "reply"
           /\ messageBuffer = pruneCall[p].before.messageBuffer
           /\ messages = pruneCall[p].before.messages

\* the boundary case: exactly MAX_MESSAGES ids at the call
C3_Witness ==
  \E p \in Handlers :
    /\ pruneCall[p].status = "noop"
    /\ pruneCall[p].n = MAX_MESSAGES
    /\ pc[p] = "await_model"
    /\ Len(messageBuffer) = MAX_MESSAGES

\* C4: after a prune whose summarization call failed, the table and the
\* buffer are what they were when the prune was invoked: no summary row, no
\* id removed.
C4_FailedPruneCommitsNothing ==
  \A p \in Handlers :
    pruneCall[p].status = "failed" =>
      /\ messages = pruneCall[p].before.messages
      /\ messageBuffer = pruneCall[p].before.messageBuffer
      /\ pruneCall[p].after = pruneCall[p].before
      /\ \A id \in DOMAIN messages : ~IsSummaryId(id)

C4_Witness ==
  \E p \in Handlers :
    /\ pruneCall[p].status = "failed"
    /\ outcome[p] = "summary_failed"
    /\ Len(messageBuffer) > MAX_MESSAGES

\* C5 as stated: when an LLM call failed during the handling of an inbound DM
\* (in the prune or in the loop), the table and the buffer are what they were
\* when the message arrived.
C5_FailedHandlingCommitsNothing ==
  \A p \in Handlers :
    (scope = "dm" /\ outcome[p] \in {"summary_failed", "llm_failed"}) =>
      /\ messages = arrival[p].messages
      /\ messageBuffer = arrival[p].messageBuffer

\* C6: every id of the buffer has a row in the table.
C6_NoDanglingBufferId ==
  \A i \in 1..Len(messageBuffer) : messageBuffer[i] \in DOMAIN messages

C6_Witness ==
  /\ \E p \in Handlers : Committed(p)
  /\ Len(messageBuffer) > 1
  /\ IsSummaryId(messageBuffer[1])
  /\ \E i \in 1..Len(messageBuffer) : messages[messageBuffer[i]].role = "tool"

\* a turn lists a tool call of the given id
ListsCall(turn, callId) ==
  /\ turn.role = "assistant"
  /\ \E j \in 1..Len(turn.tool_calls) : turn.tool_calls[j].id = callId

\* C7: every tool turn carries the id of a tool call listed in an assistant
\* turn written before it: in the table for the DM loop (uuids are issued in
\* write order), on the local message list for the guild loop.
C7_ToolTurnLinkedToEarlierCall ==
  /\ \A id \in DOMAIN messages :
       messages[id].role = "tool" =>
         \E aid \in DOMAIN messages :
           /\ ~IsSummaryId(aid)
           /\ aid[2] < id[2]
           /\ ListsCall(messages[aid], messages[id].tool_call_id)
  /\ \A p \in Handlers :
       \A i \in 1..Len(guildMessages[p]) :
         guildMessages[p][i].role = "tool" =>
           \E k \in 1..(i - 1) :
             ListsCall(guildMessages[p][k], guildMessages[p][i].tool_call_id)

\* a tool turn answering the second call of a two-call response
C7_Witness ==
  \E id \in DOMAIN messages :
    /\ messages[id].role = "tool"
    /\ \E aid \in DOMAIN messages :
         /\ messages[aid].role = "assistant"
         /\ Len(messages[aid].tool_calls) = 2
         /\ messages[aid].tool_calls[2].id = messages[id].tool_call_id

\* C8 as stated: a checkpoint, once set, is only ever replaced by one whose
\* oldestSeenMessageId is strictly older (smaller).
C8_BoundaryOnlyMovesOlder ==
  [][\A ch \in DOMAIN channelCheckpoints :
       channelCheckpoints'[ch] # channelCheckpoints[ch] =>
         channelCheckpoints'[ch].oldestSeenMessageId <
           channelCheckpoints[ch].oldestSeenMessageId]_vars

\* C8 amended: in an append-only channel whose ids only increase, handled one
\* message at a time, a checkpoint, once set, is only ever replaced by one
\* whose oldestSeenMessageId is strictly newer (greater).
C8_BoundaryOnlyMovesNewer ==
  [][\A ch \in DOMAIN channelCheckpoints :
       /\ ch \in DOMAIN channelCheckpoints'
       /\ channelCheckpoints'[ch] # channelCheckpoints[ch] =>
            channelCheckpoints'[ch].oldestSeenMessageId >
              channelCheckpoints[ch].oldestSeenMessageId]_vars

Completed(i) == summarizerInputs[i].status \in {"merged", "blank"}

\* the checkpoint of a channel has been written twice
C8_Witness ==
  \E ch \in DOMAIN channelCheckpoints :
    /\ Cardinality({i \in 1..Len(summarizerInputs) : Completed(i)}) >= 2
    /\ channelCheckpoints[ch].oldestSeenMessageId > PAGE_LIMIT \div 2 + 2

\* C9 as stated: whenever a checkpoint is set, every message of the channel
\* older than its oldestSeenMessageId has been passed to summarizeMessages.
C9_NoOlderMessageSkipped ==
  \A ch \in DOMAIN channelCheckpoints :
    \A m \in 1..Len(channel) :
      m < channelCheckpoints[ch].oldestSeenMessageId =>
        \E i \in 1..Len(summarizerInputs) : m \in summarizerInputs[i].page

\* C10 as stated: a message merged into the summary by one summarizeMessages
\* call is in the page of no later call.
C10_NoMessageSummarizedTwice ==
  \A i, j \in 1..Len(summarizerInputs) :
    (i < j /\ summarizerInputs[i].status = "merged") =>
      summarizerInputs[i].page \cap summarizerInputs[j].page = {}

\* C11: when the older page fetched by buildContextFromDiscord is empty, no
\* summarization call is made, the checkpoints stay as they are, and the
\* summary returned (and put in front of the prompt) is the stored summary of
\* the channel.
C11_EmptyOlderPageKeepsCheckpoint ==
  [][\A p \in Handlers :
       ( /\ pc[p] = "fetch_older"
         /\ pc'[p] \notin {"fetch_older", "idle"}
         /\ fetchChannelMessages(channel, PAGE_LIMIT, ctx[p].oldestRecent) = {} ) =>
         /\ summarizerInputs' = summarizerInputs
         /\ channelCheckpoints' = channelCheckpoints
         /\ pc'[p] = "guild_await_model"
         /\ ctx'[p].summary = CheckpointOf(channelCheckpoints, ctx[p].channelId).summary
         /\ guildMessages'[p] =
              GuildPrompt(channel,
                          CheckpointOf(channelCheckpoints, ctx[p].channelId).summary,
                          ctx[p].recentMessages, ctx[p].content)]_vars

\* a full recent page with nothing older: the older page came back empty
C11_Witness ==
  \E p \in Handlers :
    /\ pc[p] = "guild_await_model"
    /\ toolRounds = 0
    /\ Cardinality(ctx[p].recentMessages) = PAGE_LIMIT
    /\ ctx[p].oldestRecent = 1
    /\ fetchChannelMessages(channel, PAGE_LIMIT, ctx[p].oldestRecent) = {}
    /\ summarizerInputs = <<>>
    /\ channelCheckpoints = <<>>

\* number of occurrences of the character c in s
CountChar(s, c) == Cardinality({i \in 1..Len(s) : s[i] = c})

\* the pieces of s between the occurrences of the non-empty pat, taken left to
\* right without overlap
RECURSIVE SplitOn(_, _)
SplitOn(s, pat) ==
  LET hits == {k \in 1..Len(s) : StartsWith(SubSeq(s, k, Len(s)), pat)}
  IN  IF hits = {} THEN <<s>>
      ELSE <<SubSeq(s, 1, Min(hits) - 1)>>
           \o SplitOn(SubSeq(s, Min(hits) + Len(pat), Len(s)), pat)

RECURSIVE JoinWith(_, _)
JoinWith(pieces, sep) ==
  IF Len(pieces) = 1 THEN pieces[1]
  ELSE pieces[1] \o sep \o JoinWith(Tail(pieces), sep)

\* the last call named a label some block had
HitBlock == \E i \in 1..Len(lastCall.before) :
              lastCall.before[i].label = lastCall.args.label

C14_MinusOneInsertsAtEnd ==
  (lastCall.tool = "memory_insert" /\ HitBlock /\ lastCall.args.insert_line = -1) =>
    \A i \in 1..Len(blocks) :
      lastCall.before[i].label = lastCall.args.label =>
        LET lines == SplitLines(blocks[i].value)
        IN  lines[Len(lines)] = lastCall.args.new_str

IsMemoryCall == lastCall.tool \in {"memory_insert", "memory_replace"}

\* C15: memory_insert and memory_replace called with a label no block has
\* return "Block not found" (the call resolves, nothing is thrown) and leave
\* every block, value and lastUpdated, as it was.
C15_UnknownLabelChangesNothing ==
  (IsMemoryCall /\ ~HitBlock) =>
    /\ lastCall.settled = "resolved"
    /\ lastCall.result = "Block not found"
    /\ blocks = lastCall.before

\* an unknown label after an earlier call has edited a block
C15_Witness ==
  /\ lastCall.tool = "memory_replace"
  /\ lastCall.args.label = "missing"
  /\ lastCall.result = "Block not found"
  /\ toolOps = 2
  /\ \E i \in 1..Len(blocks) : blocks[i].lastUpdated = 1 /\ blocks[i].value # <<"x">>
  /\ blocks = lastCall.before

\* the labels of the blocks, in order
LabelsOf(blks) == [i \in 1..Len(blks) |-> blks[i].label]

\* C16: once the blocks are seeded, no memory_insert or memory_replace call
\* changes the labels of the blocks or their order, and a call naming label L
\* leaves every block of another label as it was.
C16_LabelsFixedOthersUntouched ==
  [][blocks # <<>> =>
       /\ LabelsOf(blocks') = LabelsOf(blocks)
       /\ \A i \in 1..Len(blocks) :
            blocks[i].label # lastCall'.args.label => blocks'[i] = blocks[i]]_vars

\* two calls on "persona" have changed it; "human" is as seeded
C16_Witness ==
  /\ IsMemoryCall
  /\ toolOps = 2
  /\ lastCall.args.label = "persona"
  /\ blocks[1] # lastCall.before[1]
  /\ lastCall.before[1].lastUpdated = 1
  /\ LabelsOf(blocks) = <<"persona", "human">>
  /\ blocks[2] = DEFAULT_BLOCKS[2]

RECURSIVE SumSeq(_)
SumSeq(s) == IF s = <<>> THEN 0 ELSE Head(s) + SumSeq(Tail(s))

\* the turns written to the table since the inbound message of the handling
\* arrived, in write order (summary rows left out)
NewTurns(p) ==
  LET nums == {id[2] : id \in {x \in DOMAIN messages \ DOMAIN arrival[p].messages :
                                 ~IsSummaryId(x)}}
      order == SortedSeq(nums)
  IN  [i \in 1..Len(order) |-> messages[Uuid(order[i])]]

\* C17: when the model has returned k responses with tool calls (the i-th
\* with c_i calls) and then a response with plain content, the DM loop has
\* written, after the user turn, exactly k assistant tool-call turns,
\* c_1 + ... + c_k tool turns and one final assistant turn, and it has
\* stopped: no model call is in flight and the content is what it returns.
C17_LoopWritesScriptedTurns ==
  \A p \in Handlers :
    (scope = "dm" /\ pc[p] = "send") =>
      LET t == NewTurns(p)
          k == Len(script[p])
          n == Len(t)
      IN  /\ n = 1 + k + SumSeq(script[p]) + 1
          /\ t[1].role = "user"
          /\ Cardinality({i \in 1..n : t[i].role = "assistant"
                                       /\ t[i].tool_calls # <<>>}) = k
          /\ Cardinality({i \in 1..n : t[i].role = "tool"}) = SumSeq(script[p])
          /\ Cardinality({i \in 1..n : t[i].role = "assistant"
                                       /\ t[i].tool_calls = <<>>}) = 1
          /\ t[n].role = "assistant" /\ t[n].tool_calls = <<>>
          /\ t[n].content = reply[p]
          /\ request[p] = NoRequest
          /\ toolCalls[p] = <<>>

\* the scenario of the claim: one response with one tool call, then content
C17_Witness ==
  \E p \in Handlers :
    /\ scope = "dm" /\ pc[p] = "send"
    /\ script[p] = <<1>>
    /\ Len(NewTurns(p)) = 4
    /\ NewTurns(p)[2].role = "assistant"
    /\ NewTurns(p)[3].role = "tool"
    /\ NewTurns(p)[4].content = "answer"

\* the message list a loop works on: the context window of the DM scope, the
\* local list of onGuildMessage
LoopMessages(p) ==
  IF scope = "dm" THEN getMessages(Store(messages, messageBuffer))
  ELSE guildMessages[p]

\* the last 1 + c turns of list are an assistant turn listing the calls tcs
\* followed by one tool turn per call among the first `done`, in call order
EndsWithRound(list, tcs, done) ==
  LET n == Len(list)
  IN  /\ n > done
      /\ list[n - done].role = "assistant"
      /\ list[n - done].tool_calls = tcs
      /\ \A j \in 1..done :
           /\ list[n - done + j].role = "tool"
           /\ list[n - done + j].tool_call_id = tcs[j].id

\* C18: in the DM and in the guild loop, while the tool calls of a response
\* are executed the message list ends with the assistant turn carrying the
\* whole list of calls followed by one tool turn per call executed so far, in
\* the order of the list and linked by call id, and no model call is in
\* flight; the next model call is made with a list that ends with that
\* assistant turn and exactly one tool turn per call, in order.
C18_ToolTurnsInCallOrder ==
  \A p \in Handlers :
    /\ pc[p] \in {"exec_tools", "guild_exec_tools"} =>
         /\ request[p] = NoRequest
         /\ toolIdx[p] \in 1..Len(toolCalls[p])
         /\ Len(toolCalls[p]) = script[p][Len(script[p])]
         /\ EndsWithRound(LoopMessages(p), toolCalls[p], toolIdx[p] - 1)
    /\ (pc[p] \in {"await_model", "guild_await_model"} /\ script[p] # <<>>) =>
         LET list == request[p].messages
             c == script[p][Len(script[p])]
         IN  /\ request[p].kind = "reply"
             /\ Len(list) > c
             /\ Len(list[Len(list) - c].tool_calls) = c
             /\ EndsWithRound(list, list[Len(list) - c].tool_calls, c)
             /\ list = IF scope = "dm" THEN <<SystemMessage>> \o LoopMessages(p)
                       ELSE LoopMessages(p)

\* the guild loop about to call the model again after a response of two calls
C18_Witness ==
  \E p \in Handlers :
    /\ scope = "guild" /\ pc[p] = "guild_await_model"
    /\ script[p] = <<2>>
    /\ guildMessages[p][Len(guildMessages[p])].role = "tool"
    /\ guildMessages[p][Len(guildMessages[p])].tool_call_id = CallId(2)
    /\ guildMessages[p][Len(guildMessages[p]) - 1].tool_call_id = CallId(1)

\* C19 as stated: a tool call that fails while a loop executes it is answered
\* by a tool turn carrying an error string and the loop goes on to the next
\* model call; no handling ends because a tool call failed.
C19_ToolFailureStaysInLoop ==
  \A p \in Handlers : outcome[p] # "tool_failed"

\* fetches issued by the current internet_search / read_website call
HttpAttempts == Len(http.statuses) + (IF http.phase = "fetching" THEN 1 ELSE 0)

\* C20: one internet_search or read_website call issues at most 3 fetches;
\* after a 429 on the first or second fetch the call goes on to another fetch
\* (it sleeps, then fetches again); when all 3 fetches met a 429 the call
\* resolves with its error string, it does not reject.
C20_AtMostThreeAttempts ==
  /\ HttpAttempts <= 3
  /\ \A k \in 1..Len(http.statuses) :
       (http.statuses[k] = "429" /\ k < 3) =>
         \/ Len(http.statuses) > k
         \/ http.phase \in {"sleeping", "fetching"}
  /\ (http.phase = "done" /\ http.statuses = <<"429", "429", "429">>) =>
       /\ lastCall.settled = "resolved"
       /\ lastCall.result = ErrorString(http.tool)
  /\ (http.phase = "done" /\ lastCall.settled = "rejected") =>
       /\ Len(http.statuses) = 3
       /\ http.statuses[3] \notin {"429", "ok"}

\* three 429 in a row: read_website has returned its error string
C20_Witness ==
  /\ http.tool = "read_website"
  /\ http.phase = "done"
  /\ http.statuses = <<"429", "429", "429">>
  /\ lastCall.settled = "resolved"
  /\ lastCall.result = "Error: Failed to read the website(s)"

\* the ids a buffer holds
IdsOf(buf) == {buf[i] : i \in 1..Len(buf)}

\* C23: the table never loses a turn: over every step the set of stored ids
\* only grows, and every id a step takes off the buffer keeps its row
C23_StoreNeverLosesATurn ==
  [][/\ DOMAIN messages \subseteq DOMAIN messages'
     /\ \A id \in IdsOf(messageBuffer) \ IdsOf(messageBuffer') :
          /\ id \in DOMAIN messages'
          /\ messages'[id] = messages[id]]_vars

\* a prune has committed: ids it took off the buffer are in the table
C23_Witness ==
  \E p \in Handlers :
    /\ Committed(p)
    /\ IdsOf(pruneCall[p].before.messageBuffer) \ IdsOf(messageBuffer) # {}
    /\ IdsOf(pruneCall[p].before.messageBuffer) \subseteq DOMAIN messages

LlmFailures == {"llm_failed", "summary_failed"}
Terminal(message) == message # NoResponse /\ ~HasToolCalls(message)

Built(p) ==
  /\ ctx[p].channelId # Null
  /\ pc[p] \notin {"fetch_recent", "fetch_older", "await_merge"}

\* the three conditions on the pages: a full recent page, an oldest id that
\* is not the stored boundary, a non-empty older page
PagesCallForMerge(p) ==
  /\ Cardinality(ctx[p].recentMessages) = PAGE_LIMIT
  /\ \/ ctx[p].checkpoint.oldestSeenMessageId = 0
     \/ OldestOf(ctx[p].recentMessages) # ctx[p].checkpoint.oldestSeenMessageId
  /\ ctx[p].olderMessages # {}

\* the checkpoint of the channel is not the one the handling read
WroteCheckpoint(p) ==
  CheckpointOf(channelCheckpoints, ctx[p].channelId) # ctx[p].checkpoint

\* how the summarization call of handling p ended ("none": it made none)
MergeStatus(p) ==
  IF ctx[p].inputIdx = 0 THEN "none" ELSE summarizerInputs[ctx[p].inputIdx].status

\* C26 as stated: the checkpoint is written if and only if the three
\* conditions on the pages hold, and the summary written is the merge of
\* the previous summary with the older page
C26_WritesIffPagesCallForMerge ==
  \A p \in Handlers :
    Built(p) =>
      /\ WroteCheckpoint(p) <=> PagesCallForMerge(p)
      /\ WroteCheckpoint(p) =>
           /\ channelCheckpoints[ctx[p].channelId].oldestSeenMessageId =
                OldestOf(ctx[p].recentMessages)
           /\ channelCheckpoints[ctx[p].channelId].summary =
                Append(ctx[p].checkpoint.summary, ctx[p].olderMessages)

\* C26, amended: the checkpoint is written if and only if the three
\* conditions hold and the summarization call returned; the boundary written
\* is the oldest id of the recent page, the summary written is the merge of
\* the previous summary with the older page, or the previous summary when
\* the completion was blank
C26_WritesIffMergeReturned ==
  \A p \in Handlers :
    Built(p) =>
      /\ WroteCheckpoint(p) <=>
           PagesCallForMerge(p) /\ MergeStatus(p) \in {"merged", "blank"}
      /\ WroteCheckpoint(p) =>
           /\ channelCheckpoints[ctx[p].channelId].oldestSeenMessageId =
                OldestOf(ctx[p].recentMessages)
           /\ channelCheckpoints[ctx[p].channelId].summary =
                IF MergeStatus(p) = "merged"
                THEN Append(ctx[p].checkpoint.summary, ctx[p].olderMessages)
                ELSE ctx[p].checkpoint.summary

\* a second checkpoint was written after a blank completion: it keeps the
\* summary of the first
C26_Witness ==
  \E p \in Handlers :
    /\ Built(p)
    /\ WroteCheckpoint(p)
    /\ MergeStatus(p) = "blank"
    /\ ctx[p].checkpoint.summary # <<>>

\* C27 as stated: no reply-generating model call of the DM flow is made with
\* a buffer longer than MAX_MESSAGES, whichever push made it so long
C27_NoReplyCallOverMaxMessages ==
  \A p \in Handlers :
    scope = "dm" /\ pc[p] = "await_model" /\ request[p].kind = "reply" =>
      /\ Len(messageBuffer) <= MAX_MESSAGES
      /\ Len(request[p].messages) <= MAX_MESSAGES + 1

\* handler p receives a model response of the tool-call loop in this step
ReceivesResponse(p) ==
  /\ pc[p] \in {"await_model", "guild_await_model"}
  /\ pc'[p] # pc[p]
  /\ outcome'[p] # "llm_failed"

\* the loop of handler p is left for the reply in this step
LeavesLoop(p) ==
  \/ pc[p] = "await_model" /\ pc'[p] = "send"
  \/ pc[p] = "guild_await_model" /\ pc'[p] = "idle" /\ outcome'[p] = "replied"

\* the turn the loop keeps for the response: the last row written (DM), the
\* last message of the local list (guild)
AssistantTurn(p) ==
  IF scope = "dm" THEN messages'[messageBuffer'[Len(messageBuffer')]]
  ELSE guildMessages'[p][Len(guildMessages'[p])]

\* C28: on every model response the loop is left exactly when the response
\* has no tool calls (tool_calls absent or empty), and the reply is then its
\* content; a response with tool calls keeps the loop going and its
\* content, if any, is neither kept nor sent
C28_LoopEndsExactlyWithoutToolCalls ==
  [][\A p \in Handlers :
       ReceivesResponse(p) =>
         LET m == response'[p]
             noCalls == "tool_calls" \notin DOMAIN m \/ m.tool_calls = <<>>
         IN  /\ m # NoResponse
             /\ LeavesLoop(p) <=> noCalls
             /\ noCalls =>
                  IF scope = "dm" THEN reply'[p] = m.content /\ sent' = sent
                  ELSE sent' = Append(sent, m.content)
             /\ ~noCalls =>
                  /\ pc'[p] \in {"exec_tools", "guild_exec_tools"}
                  /\ Len(toolCalls'[p]) = Len(m.tool_calls)
                  /\ AssistantTurn(p).role = "assistant"
                  /\ AssistantTurn(p).content = Null
                  /\ reply'[p] = Null
                  /\ sent' = sent]_vars

\* a response with a content and tool calls: its tools are being executed
C28_Witness ==
  \E p \in Handlers :
    /\ pc[p] \in {"exec_tools", "guild_exec_tools"}
    /\ response[p].content = "thinking"
    /\ toolCalls[p] # <<>>

BootKeys == {"system", "blocks", "messageBuffer"}

\* C29: a scope boots once.  The step in which its first message arrives
\* sets the scope id, marks system, blocks and buffer as set and seeds the
\* blocks, where empty, with the defaults of the kind of scope; a later
\* message changes neither the set keys nor the blocks, no arrival takes
\* an id off the buffer, and no other step changes which keys are set
C29_BootSeedsOnce ==
  [][IF inbound' = inbound + 1
     THEN LET idKey == IF scope = "dm" THEN "userId" ELSE "guildId"
              defaults == IF scope = "dm" THEN DEFAULT_DM_BLOCKS
                          ELSE DEFAULT_GUILD_BLOCKS
          IN  /\ idKey \in unsetKeys =>
                   /\ unsetKeys' = unsetKeys \ ({idKey} \cup BootKeys)
                   /\ blocks' = IF blocks = <<>> THEN defaults ELSE blocks
              /\ idKey \notin unsetKeys =>
                   /\ unsetKeys' = unsetKeys
                   /\ blocks' = blocks
              /\ Len(messageBuffer') >= Len(messageBuffer)
              /\ SubSeq(messageBuffer', 1, Len(messageBuffer)) = messageBuffer
     ELSE unsetKeys' = unsetKeys]_vars

\* a second message has arrived at a DM scope whose blocks were edited and
\* whose buffer holds turns: blocks and buffer are kept
C29_Witness ==
  /\ scope = "dm"
  /\ inbound = 2
  /\ blocks \notin {<<>>, DEFAULT_DM_BLOCKS}
  /\ "userId" \notin unsetKeys
  /\ \E p \in Handlers :
       /\ pc[p] = "await_model"
       /\ script[p] = <<>>
       /\ Len(messageBuffer) > 1

C21_HandlingsNeverInterleave ==
  \A i, j, k \in 1..Len(ledger) :
    i < j /\ j < k /\ ledger[i] = ledger[k] => ledger[j] = ledger[i]

Max(S) == CHOOSE x \in S : \A y \in S : y <= x

\* the indices (from 0) greater than 0 and at most the limit at which text r
\* holds character ch
BreaksAt(r, ch, limit) == {i \in 1..limit : i < Len(r) /\ r[i + 1] = ch}

\* where the claim puts the end of a chunk cut from r
CutOf(r, limit) ==
  IF BreaksAt(r, NL, limit) # {} THEN Max(BreaksAt(r, NL, limit))
  ELSE IF BreaksAt(r, " ", limit) # {} THEN Max(BreaksAt(r, " ", limit))
  ELSE limit

\* C22: every chunk is at most maxLength long; a pass over a text longer
\* than the limit cuts its chunk at the last line break at or before the
\* limit (index > 0), else at the last such space, else at the limit; the
\* chunks are posted one at a time in the order of the list
C22_ChunksWithinLimitCutAtBreaks ==
  [][/\ \A i \in 1..Len(splitter'.chunks) :
          Len(splitter'.chunks[i]) <= splitter'.maxLength
     /\ splitter.phase = "splitting" /\ Len(splitter.remaining) > splitter.maxLength =>
          splitter'.chunks =
            Append(splitter.chunks,
                   SubSeq(splitter.remaining, 1,
                          CutOf(splitter.remaining, splitter.maxLength)))
     /\ Len(splitter'.posted) <= Len(splitter'.chunks)
     /\ \A i \in 1..Len(splitter'.posted) :
          splitter'.posted[i].chunk = splitter'.chunks[i]
     /\ \/ splitter'.posted = splitter.posted
        \/ /\ Len(splitter'.posted) = Len(splitter.posted) + 1
           /\ SubSeq(splitter'.posted, 1, Len(splitter.posted)) = splitter.posted
           /\ splitter'.chunks = splitter.chunks]_vars

\* a text with a line break and a space was cut into three chunks or more,
\* all posted
C22_Witness ==
  /\ splitter.phase = "done"
  /\ Len(splitter.chunks) >= 3
  /\ Len(splitter.posted) = Len(splitter.chunks)
  /\ \E i, j \in 1..Len(splitter.text) :
       splitter.text[i] = NL /\ splitter.text[j] = " "

\* C25: every call the gateway makes on an agent is for the event being
\* dispatched, a message of a user with a content; a DM is delivered to
\* dm:<author> and to no other agent, a guild message to guild:<guild id> and
\* only if the bot is mentioned or the thread is the bot's; no dispatch is
\* delivered twice, and an event of a bot or without content is delivered
\* to no agent
C25_RoutesToAtMostOneScope ==
  [][/\ gateway'.deliveries # gateway.deliveries =>
          LET d == gateway.event
              call == gateway'.deliveries[Len(gateway'.deliveries)]
          IN  /\ gateway'.deliveries = Append(gateway.deliveries, call)
              /\ call.id = gateway.dispatched
              /\ d.t = "MESSAGE_CREATE" /\ ~d.bot /\ d.content # ""
              /\ IF d.guild_id = Null
                 THEN call.agent = <<"dm", d.author>> /\ call.method = "onDmMessage"
                 ELSE /\ call.agent = <<"guild", d.guild_id>>
                      /\ call.method = "onGuildMessage"
                      /\ \/ BotId \in d.mentions
                         \/ d.thread \in {"owned_thread", "bot_starter"}
     /\ \A i, j \in 1..Len(gateway'.deliveries) :
          gateway'.deliveries[i].id = gateway'.deliveries[j].id => i = j]_vars

\* after a DM was delivered to its agent, a guild message that does not
\* mention the bot is about to be delivered because the thread is the bot's
C25_Witness ==
  /\ gateway.phase = "deliver_guild"
  /\ BotId \notin gateway.event.mentions
  /\ gateway.event.thread = "bot_starter"
  /\ Len(gateway.deliveries) = 1
  /\ gateway.deliveries[1].agent[1] = "dm"

\* fetch k of the current call was followed by another fetch
Repeated(k) ==
  \/ k < Len(http.statuses)
  \/ k = Len(http.statuses) /\ http.phase = "fetching"

\* C31 as stated: a fetch is repeated only after a 429; any other outcome
\* of a fetch ends the call
C31_RepeatOnlyAfter429 ==
  \A k \in 1..Len(http.statuses) :
    /\ Repeated(k) => http.statuses[k] = "429"
    /\ http.statuses[k] # "429" => k = Len(http.statuses) /\ http.phase = "done"

\* C31, amended: a fetch is repeated only after a 429, a non-OK status or a
\* network error, and only while passes remain; a non-OK status or network
\* error in the first or second pass is followed by the next fetch at once,
\* in the third pass it rejects the call; a 2xx ends the call with the body
C31_RepeatAfterAnyFailure ==
  \A k \in 1..Len(http.statuses) :
    /\ Repeated(k) => http.statuses[k] \in {"429", "500", "network"} /\ k < 3
    /\ http.statuses[k] \in {"500", "network"} =>
         IF k < 3 THEN Repeated(k)
         ELSE /\ k = Len(http.statuses)
              /\ http.phase = "done"
              /\ lastCall.settled = "rejected"
    /\ http.statuses[k] = "ok" =>
         /\ k = Len(http.statuses)
         /\ http.phase = "done"
         /\ lastCall.settled = "resolved"
         /\ lastCall.result = "text"

\* a non-OK status, then a network error, then a 2xx: the call resolved
\* with the body of the third fetch
C31_Witness ==
  /\ http.phase = "done"
  /\ http.statuses = <<"500", "network", "ok">>
  /\ lastCall.settled = "resolved"
  /\ lastCall.result = "text"

\* ------------------------------------------------------------------------
\* DM flow over a persisted conversation
\* ------------------------------------------------------------------------
\* The table and the buffer outlive the object: a constructed agent holds
\* what the earlier handlings of the scope wrote.  A history lists those
\* handlings by kind: "plain" (user turn, answer) or "tools" (user turn,
\* assistant turn with two tool calls, their two tool turns, answer).
PlainHandlings(n) == [k \in 1..n |-> "plain"]

\* a conversation that has not pruned yet and ends at MAX_MESSAGES ids, and
\* one whose 26th handling pruned and that has grown to MAX_MESSAGES again
PersistedHistories ==
  { <<"tools">> \o PlainHandlings(14) \o <<"tools">> \o PlainHandlings(6),
    PlainHandlings(42) }

\* the tool calls of the c-th earlier response that called tools
EarlierToolCalls(c) ==
  <<[id |-> CallId(0 - (2 * c + 1)), name |-> "memory_insert"],
    [id |-> CallId(0 - (2 * c + 2)), name |-> "internet_search"]>>

\* the turns one handling passes to addMessage, without their ids
HandlingTurns(kind, c) ==
  LET user == [role |-> "user", content |-> "hi", tool_calls |-> <<>>,
               tool_call_id |-> NoId]
      answer == [role |-> "assistant", content |-> "answer", tool_calls |-> <<>>,
                 tool_call_id |-> NoId]
      calls == EarlierToolCalls(c)
  IN  IF kind = "plain" THEN <<user, answer>>
      ELSE <<user,
             [role |-> "assistant", content |-> Null, tool_calls |-> calls,
              tool_call_id |-> NoId],
             [role |-> "tool", content |-> "result", tool_calls |-> <<>>,
              tool_call_id |-> calls[1].id],
             [role |-> "tool", content |-> "result", tool_calls |-> <<>>,
              tool_call_id |-> calls[2].id],
             answer>>

RECURSIVE TurnsOf(_, _)
TurnsOf(kinds, c) ==
  IF kinds = <<>> THEN <<>>
  ELSE HandlingTurns(Head(kinds), c) \o
       TurnsOf(Tail(kinds), IF Head(kinds) = "tools" THEN c + 1 ELSE c)

\* the store after the turns were written one handling at a time: every
\* turn went through addMessage (row k under the k-th id, the id pushed on
\* the buffer), and the first user turn that left the buffer above
\* MAX_MESSAGES was followed by a committed prune, one clock value before
\* the run starts.  The histories above are short enough for one prune.
PersistedStore(turns) ==
  LET rows(n) == [id \in {Uuid(k) : k \in 1..n} |-> turns[id[2]]]
      ids(a, b) == [k \in 1..(b - a + 1) |-> Uuid(a + k - 1)]
      prunePoints == {k \in 1..Len(turns) :
                        turns[k].role = "user" /\ NeedsPrune(k)}
  IN  IF prunePoints = {} THEN Store(rows(Len(turns)), ids(1, Len(turns)))
      ELSE LET k == Min(prunePoints)
               st == PruneCommit(Store(rows(k), ids(1, k)),
                                 PruneLocals(ids(1, k)), 0 - 1)
           IN  Store(st.messages @@ rows(Len(turns)),
                     st.messageBuffer \o ids(k + 1, Len(turns)))

\* memory.blocks after the memory_insert calls of the history
RECURSIVE BlocksAfter(_, _)
BlocksAfter(kinds, blks) ==
  IF kinds = <<>> THEN blks
  ELSE BlocksAfter(Tail(kinds),
         IF Head(kinds) = "tools" THEN ToolEffect("memory_insert", blks, 0 - 1)
         ELSE blks)

InitPersisted ==
  /\ scope = "dm"
  /\ splitter = NoSplitter
  /\ gateway = NoGateway
  /\ channel = <<>>
  /\ InitHandlers
  /\ \E kinds \in PersistedHistories :
       LET turns == TurnsOf(kinds, 0)
           st == PersistedStore(turns)
       IN  /\ messages = st.messages
           /\ messageBuffer = st.messageBuffer
           /\ nextUuid = Len(turns) + 1
           /\ unsetKeys = {"guildId"}
           /\ sent = [k \in 1..Len(kinds) |-> "answer"]
           /\ blocks = BlocksAfter(kinds, DEFAULT_DM_BLOCKS)

SpecPersisted == InitPersisted /\ [][NextDm]_vars

\* ------------------------------------------------------------------------
\* Properties of the DM flow over a persisted conversation
\* ------------------------------------------------------------------------
SummaryIndexes(buf) == {i \in 1..Len(buf) : IsSummaryId(buf[i])}

\* C39: with the handlings of a DM scope run one at a time, the buffer holds
\* at most one summary id, and a summary id it holds is its first entry
C39_AtMostOneSummaryIdAtHead ==
  /\ Cardinality(SummaryIndexes(messageBuffer)) <= 1
  /\ SummaryIndexes(messageBuffer) \subseteq {1}

\* a prune committed over a buffer that began with the summary id of an
\* earlier prune, and left its own summary id in that place
C39_Witness ==
  \E p \in Handlers :
    /\ Committed(p)
    /\ IsSummaryId(pruneCall[p].before.messageBuffer[1])
    /\ IsSummaryId(messageBuffer[1])
    /\ messageBuffer[1] # pruneCall[p].before.messageBuffer[1]
    /\ Len(messageBuffer) > 1

\* C34: in the message list of every reply request, each tool turn comes
\* after an assistant turn of that list whose tool calls include the tool
\* turn's tool_call_id
C34_ToolTurnsFollowTheirCall ==
  \A p \in Handlers :
    request[p].kind = "reply" =>
      \A i \in 1..Len(request[p].messages) :
        request[p].messages[i].role = "tool" =>
          \E j \in 1..(i - 1) :
            /\ request[p].messages[j].role = "assistant"
            /\ \E c \in 1..Len(request[p].messages[j].tool_calls) :
                 request[p].messages[j].tool_calls[c].id =
                   request[p].messages[i].tool_call_id

\* ------------------------------------------------------------------------
\* Properties of the DM flow: the turn being answered
\* ------------------------------------------------------------------------
\* the handling of p is at the first callLlm of the loop of doSomethingSmart
AtFirstReplyCall(p) ==
  /\ scope = "dm"
  /\ pc[p] = "await_model"
  /\ script[p] = <<>>

\* C40: when a DM handling makes its first reply call, the last id of the
\* buffer is the id of the user turn the handling wrote on arrival, and
\* that turn closes the message list of the call, whether or not the
\* handling pruned
C40_UserTurnLastAtFirstReplyCall ==
  \A p \in Handlers :
    AtFirstReplyCall(p) =>
      /\ Len(messageBuffer) > 0
      /\ LET last == messageBuffer[Len(messageBuffer)]
         IN  /\ last = Uuid(nextUuid - 1)
             /\ last \notin DOMAIN arrival[p].messages
             /\ messages[last].role = "user"
             /\ request[p].kind = "reply"
             /\ request[p].messages[Len(request[p].messages)] =
                  ToMessage(messages[last])

\* a handling that pruned is at its first reply call: the buffer is the
\* summary id and the kept ids, the last of them the user turn's
C40_Witness ==
  \E p \in Handlers :
    /\ AtFirstReplyCall(p)
    /\ Committed(p)
    /\ Len(messageBuffer) = 1 + (MAX_MESSAGES + 1) - FloorPrune(MAX_MESSAGES + 1)
    /\ IsSummaryId(messageBuffer[1])
    /\ messageBuffer[Len(messageBuffer)] = Uuid(nextUuid - 1)

\* ------------------------------------------------------------------------
\* Properties of overlapping DM handlings: prunes
\* ------------------------------------------------------------------------
\* C35: when a prune commits, every id pushed on the buffer since the prune
\* read it is still in the buffer after the commit
C35_CommitKeepsLaterPushes ==
  [][\A p \in Handlers :
       (pc[p] = "await_summary" /\ pc'[p] = "await_model") =>
         (IdsOf(messageBuffer) \ IdsOf(pruneCall[p].before.messageBuffer))
           \subseteq IdsOf(messageBuffer')]_vars

\* C32: a committing prune writes its summary row under an id no row of the
\* table has yet, so the commit replaces no earlier summary row
C32_SummaryIdIsNew ==
  [][\A p \in Handlers :
       (pc[p] = "await_summary" /\ pc'[p] = "await_model") =>
         /\ IsSummaryId(messageBuffer'[1])
         /\ messageBuffer'[1] \notin DOMAIN messages]_vars

\* ------------------------------------------------------------------------
\* Properties of splitMessageByNewline: content and progress
\* ------------------------------------------------------------------------
\* a step is a pass of the loop that cut a chunk off the remaining text
CutsChunk ==
  /\ splitter.phase = "splitting"
  /\ splitter'.phase = "splitting"
  /\ Len(splitter'.chunks) = Len(splitter.chunks) + 1

\* C36: a pass that cuts a chunk drops nothing of the remaining text but
\* the one line break or space it split at; at a hard cutoff it drops
\* nothing
C36_OnlyBreaksAreDropped ==
  [][CutsChunk =>
       LET chunk == splitter'.chunks[Len(splitter'.chunks)]
       IN  \/ splitter.remaining = chunk \o splitter'.remaining
           \/ \E d \in {NL, " "} :
                splitter.remaining = chunk \o <<d>> \o splitter'.remaining]_vars

\* C37: every pass of the loop of splitMessageByNewline either leaves the
\* loop or pushes one chunk and strictly shortens the remaining text, and
\* every call returns its chunk list
C37_SplitTerminates ==
  /\ [][splitter.phase = "splitting" =>
          \/ splitter'.phase = "sending"
          \/ /\ splitter'.phase = "splitting"
             /\ Len(splitter'.chunks) = Len(splitter.chunks) + 1
             /\ Len(splitter'.remaining) < Len(splitter.remaining)]_vars
  /\ <>(splitter.phase \notin {"idle", "splitting"})

\* a text of five characters split at limit 1 was returned as three chunks
C37_Witness ==
  /\ splitter.phase = "sending"
  /\ splitter.maxLength = 1
  /\ Len(splitter.text) = MaxTextLen
  /\ Len(splitter.chunks) = 3
  /\ splitter.posted = <<>>

\* ------------------------------------------------------------------------
\* Properties of the gateway's connection
\* ------------------------------------------------------------------------
\* C38: at most one socket with registered listeners is open at any time,
\* whatever the order of start() calls and close events
C38_AtMostOneOpenSocket == Cardinality(gateway.open) <= 1

\* ------------------------------------------------------------------------
\* Properties of the Slack agent
\* ------------------------------------------------------------------------
ReplyCalls == {"history", "thread", "llm", "post"}

\* C33: no history fetch, LLM call or post is ever made for an event that
\* carries bot_id or subtype, nor for an event of the agent's own post, and
\* one made for a message event is for a message in a DM channel or one
\* that mentions the bot
C33_NoReplyToBotOrSystemEvents ==
  \A i \in 1..Len(slack.calls) :
    slack.calls[i].kind \in ReplyCalls =>
      /\ slack.calls[i].event.bot_id = Null
      /\ slack.calls[i].event.subtype = Null
      /\ ~slack.calls[i].event.own
      /\ slack.calls[i].event.type = "message" =>
           \/ isDM(slack.calls[i].event)
           \/ AppUserId \in slack.calls[i].event.mentions

\* the agent answered a DM, and the event of its own post, which mentions
\* the bot, came in and was dropped: the post is still the last request
C33_Witness ==
  /\ slack.phase = "idle"
  /\ slack.echoesHandled = 1
  /\ slack.echoes = <<>>
  /\ Len(slack.calls) > 0
  /\ slack.calls[Len(slack.calls)].kind = "post"
  /\ isDM(slack.calls[Len(slack.calls)].event)
  /\ Cardinality({i \in 1..Len(slack.calls) : slack.calls[i].kind = "post"}) = 1

====
